---- MODULE Spec2Model ----
(***************************************************************************)
(* Model of the data layer of the agent reputation dashboard               *)
(* (src/lib/data/onchain.ts and the modules it imports).                   *)
(*                                                                         *)
(* Numbers.  The TypeScript code computes on IEEE doubles; the model uses  *)
(* exact integer fixed-point arithmetic:                                   *)
(*   - "e5" values are reals scaled by 100000,                             *)
(*   - "e4" values are reals scaled by 10000 (logarithms),                 *)
(*   - seeded() values are thousandths in 0..999,                          *)
(*   - balances are thousandths of one ETH (the code sums wei as bigint),  *)
(*   - the clock (Date.now()) counts periods of five minutes.              *)
(* Math.round(x) is floor(x + 0.5); \div is floor division.                *)
(***************************************************************************)
EXTENDS Integers, Sequences, FiniteSets, TLC

VARIABLES
    now,            \* Date.now(), in periods of five minutes
    seedTab,        \* the values of the pure function seeded(), by seed residue
    arg,            \* scoring: the inputs of the scoring calls
    calls,          \* scoring: the calls made so far, each with time and output
    agentsCache,    \* onchain.ts 33: None (null) or Some(list of agents)
    cacheTimestamp, \* onchain.ts 34
    store,          \* the submitted_agents table, newest row first
    procs,          \* the calls of getAllAgents (and its wrappers) in flight
    lookup,         \* the call of getAgentById in flight
    invalPending,   \* history: invalidateAgentsCache ran and no getAllAgents
                    \* call has started since
    cacheKnown,     \* history: the registry list agentsCache was built from
    rpc,            \* one rebuild: the network calls issued, each with its state
    rebuild,        \* one rebuild: the position of getAllAgents in it
    regs            \* the calls of registerAgent, each with its position

scoreVars == <<arg, calls>>
cacheVars == <<agentsCache, cacheTimestamp, store, procs, lookup,
               invalPending, cacheKnown>>
fetchVars == <<rpc, rebuild>>
vars == <<now, seedTab, scoreVars, cacheVars, regs, fetchVars, regs>>

(***************************************************************************)
(* Bounds of the model                                                     *)
(***************************************************************************)
SeedPeriod == 2     \* seeded() is drawn as a table over seeds modulo this
MaxCalls == 2       \* scoring calls made on one input

\* a value that may be absent (null, undefined): None or Some(v)
None == <<>>
Some(v) == <<v>>

Min(a, b) == IF a < b THEN a ELSE b
Max(a, b) == IF a > b THEN a ELSE b

RECURSIVE SumSeq(_)
SumSeq(s) == IF s = <<>> THEN 0 ELSE Head(s) + SumSeq(Tail(s))

Range(s) == {s[i] : i \in 1..Len(s)}

(***************************************************************************)
(* Math.log1p, to four decimals.  LnE4(n) is 10000 * ln(n) for an integer  *)
(* n >= 1: n = m * 2^k with 1 <= m < 2, ln(m) by the atanh series.         *)
(***************************************************************************)
RECURSIVE Log2Floor(_)
Log2Floor(n) == IF n < 2 THEN 0 ELSE 1 + Log2Floor(n \div 2)

RECURSIVE Pow2(_)
Pow2(k) == IF k = 0 THEN 1 ELSE 2 * Pow2(k - 1)

\* the mantissa m of n = m * 2^k, to four decimals
Mantissa(n, k) ==
    IF k <= 14 THEN (n * 10000) \div Pow2(k)
    ELSE ((n \div Pow2(k - 14)) * 10000) \div 16384

\* term / d + term * z2 / (d + 2) + ... up to the divisor dmax
RECURSIVE SeriesSum(_, _, _, _)
SeriesSum(term, z2, d, dmax) ==
    IF d > dmax THEN 0
    ELSE term \div d + SeriesSum((term * z2) \div 10000, z2, d + 2, dmax)

\* atanh(z) = z + z^3/3 + z^5/5 + z^7/7 + z^9/9
AtanhE4(z) == SeriesSum(z, (z * z) \div 10000, 1, 9)

\* ln(m * 2^k) = k ln 2 + 2 atanh((m - 1) / (m + 1))
LnOfParts(k, m) ==
    k * 6931 + (k * 47) \div 100
    + 2 * AtanhE4(((m - 10000) * 10000) \div (m + 10000))

LnOfExponent(n, k) == LnOfParts(k, Mantissa(n, k))

LnE4(n) == LnOfExponent(n, Log2Floor(n))

\* Math.log1p(totalTx), totalTx a count
Log1pE4(n) == LnE4(n + 1)

\* Math.log1p(balanceEth), the balance given in thousandths of an ETH
Log1pMilliE4(b) == LnE4(1000 + b) - LnE4(1000)

(***************************************************************************)
(* hashString and seeded (onchain.ts 38-51)                                *)
(***************************************************************************)
RECURSIVE HashLoop(_, _)
HashLoop(s, hash) ==
    IF s = <<>> THEN hash
    ELSE HashLoop(Tail(s), (hash * 32 - hash) + Head(s))

\* An id is the sequence of its character codes.  The ids of the model are
\* short enough that ((hash << 5) - hash + char) stays below 2^31, where
\* "| 0" changes nothing.
hashString(s) ==
    LET hash == HashLoop(s, 0) IN IF hash < 0 THEN -hash ELSE hash

\* seeded(seed) = frac(sin(seed * 9301 + 49297) * 233280): a pure function of
\* the seed with values in [0, 1).  The sine of a double is not computed
\* here; the function is an arbitrary table, fixed for the whole behaviour.
seeded(seed) == seedTab[seed % SeedPeriod]

(***************************************************************************)
(* Protocol maturity scores (onchain.ts 56-68)                             *)
(***************************************************************************)
DEFAULT_PROTOCOL_SCORE == 21
USER_SUBMITTED_SCORE == 19

\* PROTOCOL_SCORES[protocol] || DEFAULT_PROTOCOL_SCORE
PROTOCOL_SCORES(protocol) ==
    CASE protocol = "autonolas" -> 31
      [] protocol = "fetch-ai"  -> 29
      [] protocol = "erc-8004"  -> 29
      [] protocol = "virtuals"  -> 28
      [] protocol = "morpheus"  -> 26
      [] protocol = "openclaw"  -> 25
      [] protocol = "spectral"  -> 25
      [] protocol = "wayfinder" -> 24
      [] protocol = "ai-arena"  -> 23
      [] OTHER -> DEFAULT_PROTOCOL_SCORE

\* the table looked up whatever the source of the entity
ProtocolBaseOfClaim(agent) == PROTOCOL_SCORES(agent.protocol)

\* 105-107: the protocol base of generatePerformanceMetrics
MetricsProtocolBase(agent) ==
    IF agent.source = "user-submitted" THEN USER_SUBMITTED_SCORE
    ELSE PROTOCOL_SCORES(agent.protocol)

\* the rank of the protocol in the table (1 for the first entry) taken for
\* its score
ProtocolBaseAsRank(agent) ==
    IF agent.source = "user-submitted" THEN USER_SUBMITTED_SCORE
    ELSE 32 - PROTOCOL_SCORES(agent.protocol)

\* 310-313: the protocol base of computeReputation
ProtocolBase(agent) ==
    IF agent.source = "user-submitted" THEN USER_SUBMITTED_SCORE
    ELSE PROTOCOL_SCORES(agent.protocol)

(***************************************************************************)
(* Age of an entity at time t.  (t - createdAt) / (86400000 * 30) months,  *)
(* a month of 30 days has 8640 periods of five minutes.                    *)
(***************************************************************************)
MONTH == 8640

\* Math.min(1, ageMonths / 24), in thousandths
AgeFactorAt(agent, t) ==
    LET age == t - agent.createdAt
    IN IF age >= 24 * MONTH THEN 1000 ELSE (age * 1000) \div (24 * MONTH)

\* Math.round(agentAgeMonths * 0.8), before the cap
AgeBonusRaw(agent, t) ==
    (4 * (t - agent.createdAt) + (5 * MONTH) \div 2) \div (5 * MONTH)

\* the age bonus with its cap of 20 forgotten
AgeBonusUncapped(agent, t) == AgeBonusRaw(agent, t)

\* Math.min(20, Math.round(agentAgeMonths * 0.8))
AgeBonusAt(agent, t) == Min(20, AgeBonusRaw(agent, t))

(***************************************************************************)
(* clamp (onchain.ts 411-413); val is an e5 value                          *)
(***************************************************************************)
RoundE5(val) == (val + 50000) \div 100000

\* clamp with the lower bound forgotten
clampNoFloor(val, min, max) == Min(max, RoundE5(val))

clamp(val, min, max) == Max(min, Min(max, RoundE5(val)))

(***************************************************************************)
(* generatePerformanceMetrics (onchain.ts 98-141)                          *)
(* totalTx a count, balanceEth in thousandths, successRate 0..100.         *)
(***************************************************************************)
\* the composite quality signal (0-1), as an e5 value
Quality(agent, totalTx, balanceEth, successRate) ==
    LET pqf       == (MetricsProtocolBase(agent) * 1000) \div 31
        txFactor  == Min(1000, Log1pE4(totalTx) \div 120)
        balFactor == Min(1000, Log1pMilliE4(balanceEth) \div 80)
        ageFactor == AgeFactorAt(agent, now)
    IN pqf * 30 + txFactor * 25 + balFactor * 15 + ageFactor * 20
       + successRate * 100

\* metric(seed, floor, ceiling) of a given quality
Metric(quality, h, seed, floor, ceiling) ==
    LET variation == seeded(h + seed) * 2000 - 1000000
        raw == quality * (ceiling - floor) + floor * 100000 + variation
    IN Max(0, Min(100, RoundE5(raw)))

\* 120-140: the nine metrics of a given quality
MetricsOfQuality(agent, quality, h) ==
    [ taskSuccessRate   |-> Metric(quality, h, 2001, 30, 98),
         robustnessScore   |-> Metric(quality, h, 2002, 25, 95),
         deliveryRate      |-> Metric(quality, h, 2003, 35, 98),
         \* an e5 value in [0.05, 0.95]
         normalizedLatency |->
            Max(5000, Min(95000,
                100000 - quality + (seeded(h + 2004) * 20 - 10000))),
         efficiencyScore   |-> Metric(quality, h, 2005, 20, 95),
         safetyScore       |-> Metric(quality, h, 2006, 40, 99),
         transparencyScore |-> Metric(quality, h, 2007, 30, 95),
         userFeedback      |-> Metric(quality, h, 2008, 25, 96),
         verifiableExecScore |->
            IF agent.source = "user-submitted" \/ agent.walletAddress = ""
            THEN 0 ELSE Metric(quality, h, 2009, 10, 90) ]

\* the metrics fed with the estimated transaction count of the stats
\* (482-486) when the entity has no transaction of its own
generatePerformanceMetricsOfEstimate(agent, totalTx, balanceEth, successRate, h) ==
    LET estimate ==
            (2 * RoundE5(5000000 + seeded(h + 200) * 45000)
               * PROTOCOL_SCORES(agent.protocol) * Len(agent.chains) + 25) \div 50
    IN MetricsOfQuality(agent,
           Quality(agent, IF totalTx > 0 THEN totalTx ELSE estimate,
                   balanceEth, successRate), h)

generatePerformanceMetrics(agent, totalTx, balanceEth, successRate, h) ==
    MetricsOfQuality(agent, Quality(agent, totalTx, balanceEth, successRate), h)

(***************************************************************************)
(* computeReputation (onchain.ts 296-409)                                  *)
(* txCounts: a function from chains to counts; balances: a sequence of     *)
(* [chain, balance] records.                                               *)
(***************************************************************************)
RECURSIVE SumFn(_, _)
SumFn(f, dom) ==
    IF dom = {} THEN 0
    ELSE LET x == CHOOSE y \in dom : TRUE IN f[x] + SumFn(f, dom \ {x})

\* Object.values(txCounts).reduce((sum, c) => sum + c, 0)
TotalTx(txCounts) == SumFn(txCounts, DOMAIN txCounts)

\* balances.reduce((sum, b) => sum + b.balance, BigInt(0))
TotalBalance(balances) == SumSeq([i \in 1..Len(balances) |-> balances[i].balance])

\* Object.values(txCounts).filter((c) => c > 0).length
ChainsActive(txCounts) == Cardinality({c \in DOMAIN txCounts : txCounts[c] > 0})

\* the three terms without their caps
OnChainUncapped(txCounts, balances) ==
    LET totalTx    == TotalTx(txCounts)
        balanceEth == TotalBalance(balances)
    IN [ txActivity    |-> (2 * Log1pE4(totalTx) + 5000) \div 10000,
         balanceBonus  |-> (3 * Log1pMilliE4(balanceEth) + 5000) \div 10000,
         multiChainAct |-> ChainsActive(txCounts) * 2 ]

\* Step 3: the on-chain bonus terms
OnChain(txCounts, balances) ==
    LET totalTx    == TotalTx(txCounts)
        balanceEth == TotalBalance(balances)
        hasWallet  == totalTx > 0 \/ balanceEth > 0
    IN IF hasWallet
       THEN [ txActivity    |-> Min(15, (2 * Log1pE4(totalTx) + 5000) \div 10000),
              balanceBonus  |-> Min(10, (3 * Log1pMilliE4(balanceEth) + 5000) \div 10000),
              multiChainAct |-> Min(5, ChainsActive(txCounts) * 2) ]
       ELSE [ txActivity |-> 0, balanceBonus |-> 0, multiChainAct |-> 0 ]

\* the history with a day variation of +-4 in the place of +-2
RECURSIVE HistoryWideVariation(_, _, _)
HistoryWideVariation(h, overall, i) ==
    IF i = 0 THEN <<>>
    ELSE LET prev == HistoryWideVariation(h, overall, i - 1)
             histScore == IF i = 1 THEN overall - 3 ELSE prev[i - 1]
             drift == seeded(h + 50) * 20 - 10000
             dayVariation == seeded(h * 100 + (i - 1)) * 800 - 400000
         IN Append(prev, clamp(histScore * 100000 + dayVariation + drift, 20, 99))

\* Step 6: the 30-day history after i steps, newest last
RECURSIVE History(_, _, _)
History(h, overall, i) ==
    IF i = 0 THEN <<>>
    ELSE LET prev == History(h, overall, i - 1)
             histScore == IF i = 1 THEN overall - 3 ELSE prev[i - 1]
             drift == seeded(h + 50) * 20 - 10000
             dayVariation == seeded(h * 100 + (i - 1)) * 400 - 200000
         IN Append(prev, clamp(histScore * 100000 + dayVariation + drift, 20, 99))

\* the older window taken one day too early: history.slice(-15, -8)
TrendWindowShifted(history) ==
    LET n == Len(history)
        recent7 == SumSeq(SubSeq(history, n - 6, n))
        older7  == SumSeq(SubSeq(history, n - 14, n - 8))
    IN IF 2 * (recent7 - older7) > 21 THEN "up"
       ELSE IF 2 * (recent7 - older7) < -21 THEN "down"
       ELSE "stable"

\* a threshold of 3 points in the place of 1.5
TrendThreePoints(history) ==
    LET n == Len(history)
        recent7 == SumSeq(SubSeq(history, n - 6, n))
        older7  == SumSeq(SubSeq(history, n - 13, n - 7))
    IN IF recent7 - older7 > 21 THEN "up"
       ELSE IF recent7 - older7 < -21 THEN "down"
       ELSE "stable"

\* the trend of a 30-point history: the last 7 values against the 7 before
Trend(history) ==
    LET n == Len(history)
        recent7 == SumSeq(SubSeq(history, n - 6, n))
        older7  == SumSeq(SubSeq(history, n - 13, n - 7))
    IN IF 2 * (recent7 - older7) > 21 THEN "up"
       ELSE IF 2 * (recent7 - older7) < -21 THEN "down"
       ELSE "stable"

computeReputation(txCounts, balances, agent, txs, metrics) ==
    LET h == hashString(agent.id)
        isUserSubmitted == agent.source = "user-submitted"
        protocolBase == ProtocolBase(agent)
        \* Step 2: structural bonuses
        ageBonus == AgeBonusAt(agent, now)
        multiChainBonus == Min(15, Len(agent.chains) * 4)
        skillBonus == Min(10, (5 * Len(agent.skills) + 1) \div 2)
        oc == OnChain(txCounts, balances)
        onChainBonus == oc.txActivity + oc.balanceBonus + oc.multiChainAct
        \* the ±3 terms, e5
        rand1 == seeded(h + 1) * 600 - 300000
        rand2 == seeded(h + 2) * 600 - 300000
        rand3 == seeded(h + 3) * 600 - 300000
        rand4 == seeded(h + 4) * 600 - 300000
        \* Step 4: sub-scores
        reliability == clamp(
            (protocolBase + ageBonus + multiChainBonus - 5 + oc.txActivity) * 100000
            + rand1 + metrics.robustnessScore * 10000 + metrics.deliveryRate * 10000,
            25, 99)
        accuracy == clamp(
            (protocolBase + skillBonus - 3) * 100000 + rand2
            + metrics.taskSuccessRate * 10000 + metrics.verifiableExecScore * 10000,
            25, 99)
        speed == clamp(
            (protocolBase - 5 + multiChainBonus) * 100000 + rand3
            + (100000 - metrics.normalizedLatency) * 10
            + metrics.efficiencyScore * 10000,
            25, 99)
        trust == clamp(
            (protocolBase + ageBonus + oc.balanceBonus) * 100000 + rand4
            + metrics.safetyScore * 10000 + metrics.transparencyScore * 10000
            + metrics.userFeedback * 10000,
            25, 99)
        \* Step 5: overall
        onChainWeight == IF isUserSubmitted THEN 50000 ELSE 30000
        overallRand == seeded(h + 5) * 800 - 400000
        rawOverall == reliability * 30000 + accuracy * 25000 + speed * 20000
                      + trust * 25000 + onChainBonus * onChainWeight + overallRand
        overall == clamp(rawOverall, 20, 99)
        history == History(h, overall, 30)
    IN [ overall |-> overall,
         reliability |-> reliability,
         accuracy |-> accuracy,
         speed |-> speed,
         trustworthiness |-> trust,
         trend |-> Trend(history),
         historyLast30Days |-> history ]

(***************************************************************************)
(* buildAgent, from the fetched data on (onchain.ts 435-539).              *)
(* transactions: a sequence of [timestamp, status] records, newest first.  *)
(* Kept of the Agent record: what the data layer itself reads again (id,   *)
(* status, chains, skills, reputation, stats, source) and the metrics the  *)
(* reputation was computed from; the display strings are left out.         *)
(***************************************************************************)
WEEK == 2016    \* 7 * 86400000 ms, in periods of five minutes

SuccessRate(transactions, h) ==
    IF Len(transactions) > 0
    THEN LET ok == Cardinality({i \in 1..Len(transactions) :
                                   transactions[i].status = "success"})
         IN (200 * ok + Len(transactions)) \div (2 * Len(transactions))
    ELSE clamp(RoundE5(8500000 + seeded(h + 300) * 1400) * 100000, 85, 99)

Status(known, transactions, hasOnChainData, h) ==
    LET protocolScore == PROTOCOL_SCORES(known.protocol)
        age == now - known.createdAt
    IN IF hasOnChainData
       THEN IF \E i \in 1..Len(transactions) :
                  now - transactions[i].timestamp < WEEK
            THEN "active" ELSE "inactive"
       ELSE IF known.walletAddress = "" /\ known.source = "user-submitted"
       THEN IF protocolScore >= 25
            THEN (IF seeded(h + 100) > 400 THEN "active" ELSE "under-review")
            ELSE "under-review"
       ELSE IF protocolScore >= 26 /\ age > 3 * MONTH THEN "active"
       ELSE IF protocolScore >= 23
            THEN (IF seeded(h + 100) > 300 THEN "active" ELSE "inactive")
       ELSE "under-review"

buildAgent(known, txCounts, balances, transactions) ==
    LET totalTx == TotalTx(txCounts)
        balanceEth == TotalBalance(balances)
        hasOnChainData == totalTx > 0 \/ balanceEth > 0
        h == hashString(known.id)
        successRate == SuccessRate(transactions, h)
        metrics == generatePerformanceMetrics(known, totalTx, balanceEth, successRate, h)
        reputation == computeReputation(txCounts, balances, known, transactions, metrics)
        status == Status(known, transactions, hasOnChainData, h)
        protocolBase == PROTOCOL_SCORES(known.protocol)
        estimatedTxMultiplier == RoundE5(5000000 + seeded(h + 200) * 45000)
        estimatedTotalTx ==
            IF totalTx > 0 THEN totalTx
            ELSE (2 * estimatedTxMultiplier * protocolBase * Len(known.chains) + 25) \div 50
    IN [ id |-> known.id,
         status |-> status,
         chains |-> known.chains,
         skills |-> known.skills,
         reputation |-> reputation,
         metrics |-> metrics,
         stats |-> [ totalTransactions |-> estimatedTotalTx,
                     successRate |-> successRate,
                     activeChains |->
                        IF hasOnChainData /\ ChainsActive(txCounts) > 0
                        THEN ChainsActive(txCounts) ELSE Len(known.chains) ],
         source |-> known.source ]

(***************************************************************************)
(* THE CACHE: getAllAgents, getTopAgents, getEcosystemStats, getAgentById  *)
(* and invalidateAgentsCache (onchain.ts 656-810) as interleaved calls.    *)
(* An async function runs from one await to the next in one step.          *)
(***************************************************************************)
CACHE_TTL == 1      \* 5 * 60 * 1000 ms: one period of the clock
batchSize == 5

NCallers == 2       \* calls of getAllAgents and its wrappers that may overlap
MaxTicks == 2       \* periods the clock runs

Callers == 1..NCallers
NRegistrants == 2    \* calls of registerAgent that may overlap
Registrants == 1..NRegistrants

\* KNOWN_AGENTS: two entries of the catalog (part_007 199-620), ids cut short
KNOWN_AGENTS ==
    << [ id |-> <<111, 49>>, protocol |-> "autonolas", walletAddress |-> "0x89",
         chains |-> <<"ethereum">>, skills |-> <<"DeFi", "Analytics", "Oracle">>,
         createdAt |-> -(40 * MONTH) ],
       [ id |-> <<111, 50>>, protocol |-> "autonolas", walletAddress |-> "0x1c",
         chains |-> <<"ethereum", "polygon">>, skills |-> <<"Trading", "DeFi", "MEV">>,
         createdAt |-> -(38 * MONTH) ] >>

\* Rows that getSubmittedAgents can return (part_008 33-45).  The columns
\* are cast without a check: a row may lack a wallet address, and a row
\* whose chains column is null makes its build throw (chainsNull).
RowWallet ==
    [ id |-> <<115, 49>>, protocol |-> "independent", walletAddress |-> "0xB1",
      chains |-> <<"ethereum", "base">>, skills |-> <<"Trading">>,
      createdAt |-> -(2 * MONTH), source |-> "user-submitted", chainsNull |-> FALSE ]
RowNoWallet ==
    [ id |-> <<115, 50>>, protocol |-> "virtuals", walletAddress |-> "",
      chains |-> <<"base">>, skills |-> <<"Content">>,
      createdAt |-> -MONTH, source |-> "user-submitted", chainsNull |-> FALSE ]
RowNullChains ==
    [ id |-> <<115, 51>>, protocol |-> "independent", walletAddress |-> "0xB3",
      chains |-> <<>>, skills |-> <<"DeFi">>,
      createdAt |-> -MONTH, source |-> "user-submitted", chainsNull |-> TRUE ]

RowPolygon ==
    [ id |-> <<115, 52>>, protocol |-> "openclaw", walletAddress |-> "0xB4",
      chains |-> <<"polygon">>, skills |-> <<"Governance", "Social">>,
      createdAt |-> -(9 * MONTH), source |-> "user-submitted", chainsNull |-> FALSE ]

\* the tables the store may hold when the server starts
InitialStores ==
    { <<RowNoWallet>>, <<RowNullChains, RowWallet, RowNoWallet, RowPolygon>> }

\* an id that is in neither the catalog nor any table
UnknownId == <<122>>

\* the chains that fetchTxCounts and fetchBalances query
EvmChains(chains) == SelectSeq(chains, LAMBDA c : c # "solana")

\* What a chain holds for a wallet address: the transaction count and the
\* balance in thousandths of an ETH
ChainData(address, chain) ==
    CASE address = "0x89" -> [count |-> 40, balance |-> 0]
      [] address = "0x1c" /\ chain = "ethereum" -> [count |-> 700, balance |-> 60000]
      [] address = "0x1c" -> [count |-> 25, balance |-> 1500]
      [] address = "0xB1" /\ chain = "base" -> [count |-> 0, balance |-> 2500]
      [] OTHER -> [count |-> 0, balance |-> 0]

\* the recent transfers of a wallet address, newest first
Transfers(address) ==
    CASE address = "0x1c" -> << [timestamp |-> -1, status |-> "success"] >>
      [] address = "0xB1" -> << [timestamp |-> -(2 * WEEK), status |-> "success"] >>
      [] OTHER -> <<>>

\* a network call of a build
Call(known, method, chain) ==
    [agent |-> known.id, method |-> method, chain |-> chain]

\* the three fetches called whether or not the entity has a wallet address
CallsOfAnyWallet(known) ==
    LET evm == EvmChains(known.chains)
    IN { Call(known, m, c) :
            m \in {"getBalance", "getTransactionCount"}, c \in Range(evm) }
       \cup { Call(known, "getTokenTransfers", "all") }

\* buildAgent 423-433: the network calls one build issues
CallsOf(known) ==
    LET evm == EvmChains(known.chains)
    IN IF known.walletAddress = "" \/ evm = <<>> THEN {}
       ELSE { Call(known, m, c) :
                 m \in {"getBalance", "getTransactionCount"}, c \in Range(evm) }
            \cup { Call(known, "getTokenTransfers", "all") }

\* the calls of the builds of a batch
CallsOfBatch(batch) == UNION { CallsOf(batch[i]) : i \in 1..Len(batch) }

\* one try/catch around all the calls of fetchTxCounts: a failed call
\* zeroes every chain
fetchTxCountsAllOrNothing(known, answered) ==
    LET evm == EvmChains(known.chains)
        allAnswered == \A c \in Range(evm) :
                          Call(known, "getTransactionCount", c) \in answered
    IN [c \in Range(evm) |->
           IF allAnswered THEN ChainData(known.walletAddress, c).count ELSE 0]

\* 166-187 fetchTxCounts; answered: the calls that returned a result
fetchTxCounts(known, answered) ==
    LET evm == EvmChains(known.chains)
    IN [c \in Range(evm) |->
           IF Call(known, "getTransactionCount", c) \in answered
           THEN ChainData(known.walletAddress, c).count ELSE 0]

\* 144-163 fetchBalances
fetchBalances(known, answered) ==
    LET evm == EvmChains(known.chains)
    IN [i \in 1..Len(evm) |->
           [chain |-> evm[i],
            balance |-> IF Call(known, "getBalance", evm[i]) \in answered
                        THEN ChainData(known.walletAddress, evm[i]).balance
                        ELSE 0]]

\* 202-253 fetchRecentTransfers
fetchRecentTransfers(known, answered) ==
    IF Call(known, "getTokenTransfers", "all") \in answered
    THEN Transfers(known.walletAddress) ELSE <<>>

\* buildAgent 423-433: the three fetches of a build
Fetched(known, answered) ==
    IF known.walletAddress = ""
    THEN [txCounts |-> <<>>, balances |-> <<>>, txs |-> <<>>]
    ELSE [txCounts |-> fetchTxCounts(known, answered),
          balances |-> fetchBalances(known, answered),
          txs |-> fetchRecentTransfers(known, answered)]

\* the settled promise of buildAgent(known)
BuildOutcome(known, answered) ==
    IF known.chainsNull
    THEN [status |-> "rejected"]
    ELSE LET f == Fetched(known, answered)
         IN [status |-> "fulfilled",
             value |-> buildAgent(known, f.txCounts, f.balances, f.txs)]

\* 684: batch.map(buildAgent), the promises settled
BuildOutcomes(batch, answered) ==
    [i \in 1..Len(batch) |-> BuildOutcome(batch[i], answered)]

\* Promise.all in the place of Promise.allSettled: one rejected build
\* rejects the batch
SettleBatchAll(outcomes) ==
    [rejected |-> \E i \in 1..Len(outcomes) : outcomes[i].status = "rejected",
     values |-> <<>>]

\* 683-688: await Promise.allSettled(...), the fulfilled values in the
\* order of the batch
SettleBatch(outcomes) ==
    LET ok == SelectSeq(outcomes, LAMBDA o : o.status = "fulfilled")
    IN [rejected |-> FALSE,
        values |-> [i \in 1..Len(ok) |-> ok[i].value]]

\* the list left as the batches collected it
SortNever(agents) == agents

\* agents.sort((a, b) => b.reputation.overall - a.reputation.overall):
\* a stable sort, highest overall first
SortByOverall(agents) ==
    LET n == Len(agents)
        before(i, j) ==
            \/ agents[i].reputation.overall > agents[j].reputation.overall
            \/ /\ agents[i].reputation.overall = agents[j].reputation.overall
               /\ i < j
        rank(i) == 1 + Cardinality({j \in 1..n : before(j, i)})
    IN [k \in 1..n |-> agents[CHOOSE i \in 1..n : rank(i) = k]]

\* 665 and 699: agentsCache && Date.now() - cacheTimestamp < CACHE_TTL,
\* with <= in the place of <
IsFreshInclusive(t) == agentsCache # None /\ t - cacheTimestamp <= CACHE_TTL

\* 665 and 699: agentsCache && Date.now() - cacheTimestamp < CACHE_TTL
IsFresh(t) == agentsCache # None /\ t - cacheTimestamp < CACHE_TTL

\* getSubmittedAgents() without the .catch: a failure rejects
SubmittedOrThrow(failed) ==
    [rejected |-> failed, list |-> IF failed THEN <<>> ELSE store]

\* 670-672: await getSubmittedAgents().catch(() => [])
SubmittedOrEmpty(failed) ==
    [rejected |-> FALSE, list |-> IF failed THEN <<>> ELSE store]

\* 673-676: the merged registry
Merge(submittedAgents) ==
    [i \in 1..Len(KNOWN_AGENTS) |->
        KNOWN_AGENTS[i] @@ [source |-> "hardcoded", chainsNull |-> FALSE]]
    \o submittedAgents

\* the cache written after every batch instead of once at the end
CacheAfterEachBatch(sorted, finished) == Some(sorted)

\* 691-693: the cache is assigned once, after the last batch
CacheAfterBatch(sorted, finished) ==
    IF finished THEN Some(sorted) ELSE agentsCache

IdleProc == [pc |-> "idle", how |-> "", afterInval |-> FALSE, known |-> <<>>,
             i |-> 0, agents |-> <<>>, ret |-> <<>>, rejected |-> FALSE]
IdleLookup == [pc |-> "idle", id |-> <<>>, known |-> None, storeFailed |-> FALSE,
               hit |-> FALSE, found |-> FALSE, ret |-> None, rejected |-> FALSE,
               registered |-> FALSE]

CacheIdle ==
    /\ agentsCache = None
    /\ cacheTimestamp = 0
    /\ store = <<>>
    /\ procs = [p \in Callers |-> IdleProc]
    /\ lookup = IdleLookup
    /\ invalPending = FALSE
    /\ cacheKnown = <<>>

ScoreIdle == arg = None /\ calls = <<>>

IdleRebuild == [pc |-> "idle", storeFailed |-> FALSE, known |-> <<>>, i |-> 0,
                agents |-> <<>>, inputs |-> <<>>, ret |-> <<>>,
                rejected |-> FALSE, builds |-> <<>>]

FetchIdle == rpc = <<>> /\ rebuild = IdleRebuild

IdleReg == [pc |-> "idle", input |-> <<>>, error |-> FALSE]

RegIdle == regs = [r \in Registrants |-> IdleReg]

\* the server has just started; the clock is far from 0
Init ==
    /\ now = 2 * CACHE_TTL
    /\ seedTab = [r \in 0..(SeedPeriod - 1) |-> 500]
    /\ ScoreIdle
    /\ FetchIdle
    /\ RegIdle
    /\ agentsCache = None
    /\ cacheTimestamp = 0
    /\ store \in InitialStores
    /\ procs = [p \in Callers |-> IdleProc]
    /\ lookup = IdleLookup
    /\ invalPending = FALSE
    /\ cacheKnown = <<>>

\* 659-662
invalidateAgentsCache ==
    /\ agentsCache' = None
    /\ cacheTimestamp' = 0
    /\ invalPending' = TRUE
    /\ cacheKnown' = <<>>
    /\ UNCHANGED <<now, seedTab, scoreVars, fetchVars, regs, store, procs, lookup>>

\* 664-670: a call of getAllAgents (by a page, by getTopAgents or by
\* getEcosystemStats) up to its first await
GetAllAgentsStart(p) ==
    /\ procs[p].pc = "idle"
    /\ IF IsFresh(now)
       THEN procs' = [procs EXCEPT ![p] =
                [IdleProc EXCEPT !.pc = "done", !.how = "cache",
                                 !.afterInval = invalPending,
                                 !.known = cacheKnown, !.ret = agentsCache[1]]]
       ELSE procs' = [procs EXCEPT ![p] =
                [IdleProc EXCEPT !.pc = "store", !.how = "rebuild",
                                 !.afterInval = invalPending]]
    /\ invalPending' = FALSE
    /\ UNCHANGED <<now, seedTab, scoreVars, fetchVars, regs, agentsCache, cacheTimestamp, store,
                   lookup, cacheKnown>>

\* 670-676: getSubmittedAgents() settles; on failure the list is empty
GetAllAgentsStore(p) ==
    /\ procs[p].pc = "store"
    /\ \E failed \in BOOLEAN :
          LET submitted == SubmittedOrEmpty(failed)
          IN procs' = IF submitted.rejected
                      THEN [procs EXCEPT ![p].pc = "done", ![p].rejected = TRUE]
                      ELSE [procs EXCEPT ![p].pc = "batch",
                                         ![p].known = Merge(submitted.list)]
    /\ UNCHANGED <<now, seedTab, scoreVars, fetchVars, regs, agentsCache, cacheTimestamp, store,
                   lookup, invalPending, cacheKnown>>

\* 681-695: one batch settles, every network call of its builds answered;
\* after the last batch the list is sorted, cached and returned
GetAllAgentsBatch(p) ==
    /\ procs[p].pc = "batch"
    /\ LET me == procs[p]
           batch == SubSeq(me.known, me.i + 1, Min(me.i + batchSize, Len(me.known)))
           finished == me.i + batchSize >= Len(me.known)
       IN \E results \in {SettleBatch(BuildOutcomes(batch, CallsOfBatch(batch)))} :
          \E agents \in {me.agents \o results.values} :
          \E sorted \in {SortByOverall(agents)} :
             IF results.rejected
             THEN /\ procs' = [procs EXCEPT ![p].pc = "done", ![p].rejected = TRUE]
                  /\ UNCHANGED <<agentsCache, cacheTimestamp, cacheKnown>>
             ELSE /\ agentsCache' = CacheAfterBatch(sorted, finished)
                  /\ cacheTimestamp' = IF finished THEN now ELSE cacheTimestamp
                  /\ cacheKnown' = IF agentsCache' = agentsCache /\ ~finished
                                   THEN cacheKnown ELSE me.known
                  /\ procs' = [procs EXCEPT
                         ![p].i = me.i + batchSize,
                         ![p].agents = IF finished THEN <<>> ELSE agents,
                         ![p].pc = IF finished THEN "done" ELSE "batch",
                         ![p].ret = IF finished THEN sorted ELSE <<>>]
    /\ UNCHANGED <<now, seedTab, scoreVars, fetchVars, regs, store, lookup, invalPending>>

\* getAllAgents resolves to its caller: a page, or getEcosystemStats
\* (736-810), which only reads the list
GetAllAgentsReturn(p) ==
    /\ procs[p].pc = "done"
    /\ procs' = [procs EXCEPT ![p] = IdleProc]
    /\ UNCHANGED <<now, seedTab, scoreVars, fetchVars, regs, agentsCache, cacheTimestamp, store,
                   lookup, invalPending, cacheKnown>>

\* 729-734 getTopAgents: the array it was given, the cached one unless the
\* cache has been replaced since, is sorted in place before the slice
GetTopAgentsReturn(p) ==
    /\ procs[p].pc = "done"
    /\ ~procs[p].rejected
    /\ agentsCache' = IF agentsCache = Some(procs[p].ret)
                      THEN Some(SortByOverall(procs[p].ret)) ELSE agentsCache
    /\ procs' = [procs EXCEPT ![p] = IdleProc]
    /\ UNCHANGED <<now, seedTab, scoreVars, fetchVars, regs, cacheTimestamp, store, lookup,
                   invalPending, cacheKnown>>

\* five minutes pass
Tick ==
    /\ now < 2 * CACHE_TTL + MaxTicks
    /\ now' = now + 1
    /\ UNCHANGED <<seedTab, scoreVars, fetchVars, regs, cacheVars>>

\* agentsCache.find((a) => a.id === id), and the same on the other lists
Find(list, id) ==
    IF \E i \in 1..Len(list) : list[i].id = id
    THEN Some(list[CHOOSE i \in 1..Len(list) :
                      list[i].id = id /\ \A j \in 1..(i - 1) : list[j].id # id])
    ELSE None

\* the ids getAgentById is called with
LookupIds == {KNOWN_AGENTS[2].id, RowNullChains.id, UnknownId}

\* the store read of getAgentById without its try/catch
SubmittedLookupNoCatch(failed, id) ==
    IF failed THEN [rejected |-> TRUE, known |-> None]
    ELSE [rejected |-> FALSE, known |-> Find(store, id)]

\* 710-717: try { known = (await getSubmittedAgents()).find(...) } catch {}
SubmittedLookup(failed, id) ==
    IF failed THEN [rejected |-> FALSE, known |-> None]
    ELSE [rejected |-> FALSE, known |-> Find(store, id)]

\* history: a call of registerAgent for this slug has returned without an
\* error
RegisteredAs(id) ==
    \E r \in Registrants : /\ regs[r].pc = "done"
                           /\ ~regs[r].error
                           /\ regs[r].input.slug = id

\* 698-717: getAgentById up to its first await
GetAgentByIdStart(id) ==
    /\ lookup.pc = "idle"
    /\ LET inCatalog == Find(KNOWN_AGENTS, id)
       IN lookup' =
            IF IsFresh(now)
            THEN [IdleLookup EXCEPT !.pc = "done", !.id = id, !.hit = TRUE,
                                    !.ret = Find(agentsCache[1], id),
                                    !.registered = RegisteredAs(id)]
            ELSE IF inCatalog # None
            THEN [IdleLookup EXCEPT !.pc = "build", !.id = id,
                     !.known = Some(inCatalog[1] @@ [source |-> "hardcoded",
                                                     chainsNull |-> FALSE])]
            ELSE [IdleLookup EXCEPT !.pc = "store", !.id = id,
                                    !.registered = RegisteredAs(id)]
    /\ UNCHANGED <<now, seedTab, scoreVars, fetchVars, regs, agentsCache, cacheTimestamp, store,
                   procs, invalPending, cacheKnown>>

\* 710-719: the store read settles
GetAgentByIdStore ==
    /\ lookup.pc = "store"
    /\ \E failed \in BOOLEAN :
          LET r == SubmittedLookup(failed, lookup.id)
          IN lookup' =
               IF r.rejected
               THEN [lookup EXCEPT !.pc = "done", !.rejected = TRUE,
                                   !.storeFailed = failed]
               ELSE IF r.known = None
               THEN [lookup EXCEPT !.pc = "done", !.ret = None,
                                   !.storeFailed = failed]
               ELSE [lookup EXCEPT !.pc = "build", !.known = r.known,
                                   !.storeFailed = failed]
    /\ UNCHANGED <<now, seedTab, scoreVars, fetchVars, regs, agentsCache, cacheTimestamp, store,
                   procs, invalPending, cacheKnown>>

\* a lookup that stores what it built as the cache
GetAgentByIdBuildCaching ==
    /\ lookup.pc = "build"
    /\ \E o \in {BuildOutcome(lookup.known[1], CallsOf(lookup.known[1]))} :
          /\ lookup' = [lookup EXCEPT
                !.pc = "done", !.found = TRUE,
                !.ret = IF o.status = "fulfilled" THEN Some(o.value) ELSE None]
          /\ agentsCache' = IF o.status = "fulfilled" THEN Some(<<o.value>>)
                            ELSE agentsCache
          /\ cacheTimestamp' = IF o.status = "fulfilled" THEN now ELSE cacheTimestamp
    /\ UNCHANGED <<now, seedTab, scoreVars, fetchVars, regs, store,
                   procs, invalPending, cacheKnown>>

\* 721-725: try { return await buildAgent(known) } catch { return undefined }
GetAgentByIdBuild ==
    /\ lookup.pc = "build"
    /\ \E o \in {BuildOutcome(lookup.known[1], CallsOf(lookup.known[1]))} :
          lookup' = [lookup EXCEPT
              !.pc = "done", !.found = TRUE,
              !.ret = IF o.status = "fulfilled" THEN Some(o.value) ELSE None]
    /\ UNCHANGED <<now, seedTab, scoreVars, fetchVars, regs, agentsCache, cacheTimestamp, store,
                   procs, invalPending, cacheKnown>>

\* getAgentById settles to its caller
GetAgentByIdReturn ==
    /\ lookup.pc = "done"
    /\ lookup' = IdleLookup
    /\ UNCHANGED <<now, seedTab, scoreVars, fetchVars, regs, agentsCache, cacheTimestamp, store,
                   procs, invalPending, cacheKnown>>

Next ==
    \/ \E p \in Callers : GetAllAgentsStart(p)
    \/ \E p \in Callers : GetAllAgentsStore(p)
    \/ \E p \in Callers : GetAllAgentsBatch(p)
    \/ \E p \in Callers : GetAllAgentsReturn(p)
    \/ \E p \in Callers : GetTopAgentsReturn(p)
    \/ invalidateAgentsCache
    \/ Tick

Spec == Init /\ [][Next]_vars

\* getAgentById called while one caller of getAllAgents fills the cache
ByIdNext ==
    \/ GetAllAgentsStart(1)
    \/ GetAllAgentsStore(1)
    \/ GetAllAgentsBatch(1)
    \/ GetAllAgentsReturn(1)
    \/ Tick
    \/ \E id \in LookupIds : GetAgentByIdStart(id)
    \/ GetAgentByIdStore
    \/ GetAgentByIdBuild
    \/ GetAgentByIdReturn

SpecById == Init /\ [][ByIdNext]_vars

(***************************************************************************)
(* REGISTRATION: registerAgent (src/app/agents/register/actions.ts 28-125) *)
(* called by signed-in users while pages read the registry.  The table     *)
(* submitted_agents is the variable store, newest row first (part_008 26). *)
(***************************************************************************)
\* generateSlug(input.name) of the name the registrants choose
NewSlug == <<110, 49>>

\* what the form sends: every registrant the new agent (each with a wallet
\* of their own), the second also a name whose slug is in the catalog and
\* a malformed address
RegisterInputs(r) ==
    { [slug |-> NewSlug, walletAddress |-> IF r = 1 THEN "0xC1" ELSE "0xC2",
       chains |-> <<"base">>, skills |-> <<"DeFi">>, protocol |-> ""] }
    \cup
    IF r = 1 THEN {}
    ELSE { [slug |-> KNOWN_AGENTS[1].id, walletAddress |-> "0xC3",
            chains |-> <<"base">>, skills |-> <<"DeFi">>, protocol |-> "virtuals"],
           [slug |-> <<110, 50>>, walletAddress |-> "",
            chains |-> <<"base">>, skills |-> <<"DeFi">>, protocol |-> ""] }

\* 53-66: the checks of the address, the chains, the skills and the slug
ValidInput(input) ==
    /\ input.walletAddress # ""
    /\ input.chains # <<>>
    /\ input.skills # <<>>
    /\ input.slug # <<>>

\* 69-73: KNOWN_AGENTS.find(a => same wallet address || a.id === slug)
ExistingHardcoded(input) ==
    \E i \in 1..Len(KNOWN_AGENTS) :
        \/ KNOWN_AGENTS[i].walletAddress = input.walletAddress
        \/ KNOWN_AGENTS[i].id = input.slug

\* 81-87: select ... .or(slug.eq.slug, wallet_address.ilike.wallet).limit(1)
ExistingSubmitted(input) ==
    \E i \in 1..Len(store) :
        \/ store[i].id = input.slug
        \/ store[i].walletAddress = input.walletAddress

\* 96-107 with part_008 33-45: the inserted row as getSubmittedAgents
\* returns it
InsertedRow(input, t) ==
    [ id |-> input.slug,
      protocol |-> IF input.protocol = "" THEN "independent" ELSE input.protocol,
      walletAddress |-> input.walletAddress,
      chains |-> input.chains, skills |-> input.skills,
      createdAt |-> t, source |-> "user-submitted", chainsNull |-> FALSE ]

\* 28-87: registerAgent up to the select it awaits
RegisterAgentStart(r) ==
    /\ regs[r].pc = "idle"
    /\ \E input \in RegisterInputs(r) :
          regs' = [regs EXCEPT ![r] =
              IF ~ValidInput(input) \/ ExistingHardcoded(input)
              THEN [pc |-> "done", input |-> input, error |-> TRUE]
              ELSE [pc |-> "select", input |-> input, error |-> FALSE]]
    /\ UNCHANGED <<now, seedTab, scoreVars, cacheVars, fetchVars>>

\* 81-96: the select settles; without a duplicate the insert is sent
RegisterAgentSelect(r) ==
    /\ regs[r].pc = "select"
    /\ regs' = [regs EXCEPT ![r] =
          IF ExistingSubmitted(regs[r].input)
          THEN [@ EXCEPT !.pc = "done", !.error = TRUE]
          ELSE [@ EXCEPT !.pc = "insert"]]
    /\ UNCHANGED <<now, seedTab, scoreVars, cacheVars, fetchVars>>

\* 96-124: the insert settles.  The database may refuse it (a constraint
\* of the table, which is not in the repository, or an outage); otherwise
\* the row is in the table, the paths of three pages are revalidated and
\* the user is redirected.  agentsCache and cacheTimestamp are not touched.
RegisterAgentInsert(r) ==
    /\ regs[r].pc = "insert"
    /\ \E refused \in BOOLEAN :
          IF refused
          THEN /\ regs' = [regs EXCEPT ![r] = [@ EXCEPT !.pc = "done",
                                                        !.error = TRUE]]
               /\ UNCHANGED store
          ELSE /\ regs' = [regs EXCEPT ![r] = [@ EXCEPT !.pc = "done"]]
               /\ store' = <<InsertedRow(regs[r].input, now)>> \o store
    /\ UNCHANGED <<now, seedTab, scoreVars, fetchVars, agentsCache,
                   cacheTimestamp, procs, lookup, invalPending, cacheKnown>>

\* the registry read by one caller and by getAgentById while users register
RegisterNext ==
    \/ GetAllAgentsStart(1)
    \/ GetAllAgentsStore(1)
    \/ GetAllAgentsBatch(1)
    \/ GetAllAgentsReturn(1)
    \/ Tick
    \/ GetAgentByIdStart(NewSlug)
    \/ GetAgentByIdStore
    \/ GetAgentByIdBuild
    \/ GetAgentByIdReturn
    \/ \E r \in Registrants : RegisterAgentStart(r)
    \/ \E r \in Registrants : RegisterAgentSelect(r)
    \/ \E r \in Registrants : RegisterAgentInsert(r)

\* the server has just started and the table holds one row
RegisterInit ==
    /\ now = 2 * CACHE_TTL
    /\ seedTab = [r \in 0..(SeedPeriod - 1) |-> 500]
    /\ ScoreIdle
    /\ FetchIdle
    /\ RegIdle
    /\ agentsCache = None
    /\ cacheTimestamp = 0
    /\ store = <<RowNoWallet>>
    /\ procs = [p \in Callers |-> IdleProc]
    /\ lookup = IdleLookup
    /\ invalPending = FALSE
    /\ cacheKnown = <<>>

SpecRegister == RegisterInit /\ [][RegisterNext]_vars

(***************************************************************************)
(* ONE REBUILD at the grain of its network calls: getAllAgents (664-696)   *)
(* called once on an empty cache.  The builds of a batch issue their calls *)
(* together; each call is answered, fails, or stays pending.               *)
(***************************************************************************)
FetchInit ==
    /\ now = 2 * CACHE_TTL
    /\ seedTab = [r \in 0..(SeedPeriod - 1) |-> 500]
    /\ ScoreIdle
    /\ FetchIdle
    /\ RegIdle
    /\ agentsCache = None
    /\ cacheTimestamp = 0
    /\ store = <<RowNoWallet>>
    /\ procs = [p \in Callers |-> IdleProc]
    /\ lookup = IdleLookup
    /\ invalPending = FALSE
    /\ cacheKnown = <<>>

\* the loop without batches: every remaining entity in one slice
BatchAtRest(known, i) == SubSeq(known, i + 1, Len(known))

\* the batch of the rebuild that starts at position i of known
BatchAt(known, i) == SubSeq(known, i + 1, Min(i + batchSize, Len(known)))

\* 664-670: the cache is empty, the store is asked
FetchStart ==
    /\ rebuild.pc = "idle"
    /\ ~IsFresh(now)
    /\ rebuild' = [rebuild EXCEPT !.pc = "store"]
    /\ UNCHANGED <<now, seedTab, scoreVars, cacheVars, regs, rpc>>

\* 670-683: the store call settles and the builds of the first batch issue
\* their network calls
FetchStoreRespond ==
    /\ rebuild.pc = "store"
    /\ \E failed \in BOOLEAN :
          LET submitted == SubmittedOrEmpty(failed)
              known == Merge(submitted.list)
          IN IF submitted.rejected
             THEN /\ rebuild' = [rebuild EXCEPT !.pc = "done", !.rejected = TRUE,
                                                !.storeFailed = failed]
                  /\ UNCHANGED rpc
             ELSE /\ rebuild' = [rebuild EXCEPT !.pc = "batch", !.known = known,
                                                !.storeFailed = failed]
                  /\ rpc' = [c \in CallsOfBatch(BatchAt(known, 0)) |-> "pending"]
    /\ UNCHANGED <<now, seedTab, scoreVars, cacheVars, regs>>

\* a call that threw is sent again
RpcRespondWithRetry(c) ==
    /\ rebuild.pc = "batch"
    /\ c \in DOMAIN rpc
    /\ \/ /\ rpc[c] = "pending"
          /\ \E outcome \in {"ok", "failed"} : rpc' = [rpc EXCEPT ![c] = outcome]
       \/ /\ rpc[c] = "failed"
          /\ rpc' = [rpc EXCEPT ![c] = "pending"]
    /\ UNCHANGED <<now, seedTab, scoreVars, cacheVars, regs, rebuild>>

\* rpcCall / ankrAdvancedCall (part_009 36-66): the endpoint answers, or the
\* call throws (network error, HTTP status, JSON-RPC error)
RpcRespond(c) ==
    /\ rebuild.pc = "batch"
    /\ c \in DOMAIN rpc
    /\ rpc[c] = "pending"
    /\ \E outcome \in {"ok", "failed"} : rpc' = [rpc EXCEPT ![c] = outcome]
    /\ UNCHANGED <<now, seedTab, scoreVars, cacheVars, regs, rebuild>>

\* the calls that returned a result
Answered == {c \in DOMAIN rpc : rpc[c] = "ok"}

\* what a build hands to the scoring as aggregate count and balance
ScoringInputs(known, answered) ==
    [ id |-> known.id,
      totalTx |-> TotalTx(Fetched(known, answered).txCounts),
      totalBalance |-> TotalBalance(Fetched(known, answered).balances) ]

\* 681-695: every call of the batch has settled, so its builds settle; after
\* the last batch the list is sorted, cached and returned
FetchSettle ==
    /\ rebuild.pc = "batch"
    /\ \A c \in DOMAIN rpc : rpc[c] # "pending"
    /\ LET batch == BatchAt(rebuild.known, rebuild.i)
           finished == rebuild.i + batchSize >= Len(rebuild.known)
           inputs == rebuild.inputs \o
                     [k \in 1..Len(batch) |-> ScoringInputs(batch[k], Answered)]
       IN \E results \in {SettleBatch(BuildOutcomes(batch, Answered))} :
          \E agents \in {rebuild.agents \o results.values} :
          \E sorted \in {SortByOverall(agents)} :
             IF results.rejected
             THEN /\ rebuild' = [rebuild EXCEPT !.pc = "done", !.rejected = TRUE]
                  /\ UNCHANGED <<rpc, agentsCache, cacheTimestamp, cacheKnown>>
             ELSE /\ agentsCache' = CacheAfterBatch(sorted, finished)
                  /\ cacheTimestamp' = IF finished THEN now ELSE cacheTimestamp
                  /\ cacheKnown' = IF finished THEN rebuild.known ELSE cacheKnown
                  /\ rebuild' = [rebuild EXCEPT
                         !.i = rebuild.i + batchSize,
                         !.agents = IF finished THEN <<>> ELSE agents,
                         !.inputs = inputs,
                         !.pc = IF finished THEN "done" ELSE "batch",
                         !.ret = IF finished THEN sorted ELSE <<>>]
                  /\ rpc' = IF finished THEN rpc
                            ELSE [c \in CallsOfBatch(
                                      BatchAt(rebuild.known, rebuild.i + batchSize))
                                  |-> "pending"]
    /\ UNCHANGED <<now, seedTab, scoreVars, regs, store, procs, lookup, invalPending>>

FetchNext ==
    \/ FetchStart
    \/ FetchStoreRespond
    \/ \E c \in DOMAIN rpc : RpcRespond(c)
    \/ FetchSettle

\* FetchSettle is enabled
SettleReady ==
    rebuild.pc = "batch" /\ \A c \in DOMAIN rpc : rpc[c] # "pending"

\* a step of FetchSettle
Settled == rebuild'.pc = "done" \/ rebuild'.i # rebuild.i

\* The program takes its own steps and the store answers: weak fairness of
\* FetchStart, of FetchStoreRespond and (written out) of FetchSettle.
\* Nothing in rpcCall or ankrAdvancedCall makes a pending call settle.
FetchSpec ==
    /\ FetchInit
    /\ [][FetchNext]_vars
    /\ WF_vars(FetchStart)
    /\ WF_vars(FetchStoreRespond)
    /\ ([]<>(~SettleReady) \/ []<><<Settled>>_vars)

(***************************************************************************)
(* ONE REBUILD at the grain of its builds: the loop of getAllAgents         *)
(* (678-689).  rebuild.builds holds, for every entity whose build has been  *)
(* started, whether that build is running or how it settled.               *)
(***************************************************************************)
\* the tables the store may hold: none to four rows, so that the registry
\* has two to six entries
BatchStores ==
    { SubSeq(<<RowNoWallet, RowWallet, RowNullChains, RowPolygon>>, 1, n) :
        n \in 0..4 }

BatchInit ==
    /\ now = 2 * CACHE_TTL
    /\ seedTab = [r \in 0..(SeedPeriod - 1) |-> 500]
    /\ ScoreIdle
    /\ FetchIdle
    /\ RegIdle
    /\ agentsCache = None
    /\ cacheTimestamp = 0
    /\ store \in BatchStores
    /\ procs = [p \in Callers |-> IdleProc]
    /\ lookup = IdleLookup
    /\ invalPending = FALSE
    /\ cacheKnown = <<>>

\* batch.map(buildAgent) (683): the builds of the batch at position i start
StartBuilds(builds, known, i) ==
    builds \o [k \in 1..Len(BatchAt(known, i)) |-> "running"]

\* 664-683: the cache is empty; the store answers or fails, the registry is
\* merged and the builds of the first batch start
BatchStoreRespond ==
    /\ rebuild.pc = "idle"
    /\ ~IsFresh(now)
    /\ \E failed \in BOOLEAN :
          LET known == Merge(SubmittedOrEmpty(failed).list)
          IN rebuild' = [rebuild EXCEPT
                 !.pc = "batch", !.known = known, !.storeFailed = failed,
                 !.builds = StartBuilds(<<>>, known, 0)]
    /\ UNCHANGED <<now, seedTab, scoreVars, cacheVars, regs, rpc>>

\* one running build settles: buildAgent returns or throws
BuildSettle(k) ==
    /\ rebuild.pc = "batch"
    /\ k \in 1..Len(rebuild.builds)
    /\ rebuild.builds[k] = "running"
    /\ \E o \in {BuildOutcome(rebuild.known[k], CallsOf(rebuild.known[k]))} :
          rebuild' = [rebuild EXCEPT !.builds[k] = o.status]
    /\ UNCHANGED <<now, seedTab, scoreVars, cacheVars, regs, rpc>>

\* 683-695: Promise.allSettled resolves once no build of the batch is
\* running; the fulfilled builds are collected, and the loop starts the
\* builds of the next batch, or sorts, caches and returns
BatchSettle ==
    /\ rebuild.pc = "batch"
    /\ \A k \in 1..Len(rebuild.builds) : rebuild.builds[k] # "running"
    /\ LET batch == BatchAt(rebuild.known, rebuild.i)
           finished == rebuild.i + Len(batch) >= Len(rebuild.known)
       IN \E results \in {SettleBatch(BuildOutcomes(batch, CallsOfBatch(batch)))} :
          \E agents \in {rebuild.agents \o results.values} :
          \E sorted \in {SortByOverall(agents)} :
             /\ agentsCache' = CacheAfterBatch(sorted, finished)
             /\ cacheTimestamp' = IF finished THEN now ELSE cacheTimestamp
             /\ cacheKnown' = IF finished THEN rebuild.known ELSE cacheKnown
             /\ rebuild' = [rebuild EXCEPT
                    !.i = rebuild.i + Len(batch),
                    !.agents = IF finished THEN <<>> ELSE agents,
                    !.pc = IF finished THEN "done" ELSE "batch",
                    !.ret = IF finished THEN sorted ELSE <<>>,
                    !.builds = IF finished THEN rebuild.builds
                               ELSE StartBuilds(rebuild.builds, rebuild.known,
                                                rebuild.i + Len(batch))]
    /\ UNCHANGED <<now, seedTab, scoreVars, regs, rpc, store, procs, lookup,
                   invalPending>>

BatchNext ==
    \/ BatchStoreRespond
    \/ \E k \in 1..Len(rebuild.builds) : BuildSettle(k)
    \/ BatchSettle

SpecBatch == BatchInit /\ [][BatchNext]_vars

(***************************************************************************)
(* The environment's pure function seeded(): every table over the seed     *)
(* residues with the lowest, a middle and the highest representable value. *)
(***************************************************************************)
SeedLevels == {0, 500, 999}
SeedTables == [0..(SeedPeriod - 1) -> SeedLevels]

(***************************************************************************)
(* SCORING.  One entity and one set of on-chain inputs, scored up to       *)
(* MaxCalls times while the clock advances.                                *)
(***************************************************************************)
MaxAdvance == 2     \* clock advances (of six months each) between the calls

ScoreChains == { <<"ethereum">>, <<"ethereum", "base", "solana", "polygon">> }
ScoreSkills == { <<"DeFi">>, <<"DeFi", "Trading", "MEV", "Oracle">> }
ScoreAgesInMonths == {0, 12, 30}

ScoreAgents ==
    { [ id |-> <<97>>, protocol |-> p, source |-> "hardcoded",
        walletAddress |-> "0xA", chains |-> c, skills |-> k,
        createdAt |-> -(a * MONTH) ] :
        p \in {"autonolas", "ai-arena"}, c \in ScoreChains, k \in ScoreSkills,
        a \in ScoreAgesInMonths }
    \cup
    { [ id |-> <<98>>, protocol |-> p, source |-> "user-submitted",
        walletAddress |-> w, chains |-> c, skills |-> <<"DeFi">>,
        createdAt |-> -(a * MONTH) ] :
        p \in {"autonolas", "independent"}, w \in {"0xB", ""},
        c \in ScoreChains, a \in ScoreAgesInMonths }

\* What the three fetches of one build can hand to the scoring: nothing
\* (every call failed: zero counts and balances), a little, a lot.
\* A count is a nonce, a balance is in thousandths of an ETH.
ScoreInputs(agent) ==
    LET evm == EvmChains(agent.chains)
        counts(v, w) == [c \in Range(evm) |-> IF c = evm[1] THEN v ELSE w]
        bals(v) == [i \in 1..Len(evm) |-> [chain |-> evm[i], balance |-> v]]
    IN IF agent.walletAddress = ""
       THEN { [txCounts |-> <<>>, balances |-> <<>>, txs |-> <<>>] }
       ELSE { [txCounts |-> counts(0, 0), balances |-> bals(0), txs |-> <<>>],
              [txCounts |-> counts(40, 0), balances |-> bals(0), txs |-> <<>>],
              [txCounts |-> counts(0, 0), balances |-> bals(2500),
               txs |-> << [timestamp |-> -(2 * WEEK), status |-> "success"] >>],
              [txCounts |-> counts(90000, 700), balances |-> bals(60000),
               txs |-> << [timestamp |-> -1, status |-> "success"],
                          [timestamp |-> -(2 * WEEK), status |-> "success"] >>] }

ScoreInit ==
    /\ CacheIdle
    /\ FetchIdle
    /\ RegIdle
    /\ now = 0
    /\ seedTab \in SeedTables
    /\ \E agent \in ScoreAgents : \E inp \in ScoreInputs(agent) :
          arg = [ agent |-> agent, txCounts |-> inp.txCounts,
                  balances |-> inp.balances, txs |-> inp.txs ]
    /\ calls = <<>>

\* one run of the scoring of buildAgent: generatePerformanceMetrics, then
\* computeReputation, both reading Date.now()
ScoreCall ==
    /\ Len(calls) < MaxCalls
    /\ calls' = Append(calls,
          [ at |-> now,
            out |-> buildAgent(arg.agent, arg.txCounts, arg.balances, arg.txs) ])
    /\ UNCHANGED <<now, seedTab, arg, cacheVars, fetchVars, regs>>

\* time passes between two calls
AdvanceClock ==
    /\ now < MaxAdvance * 6 * MONTH
    /\ now' = now + 6 * MONTH
    /\ UNCHANGED <<seedTab, arg, calls, cacheVars, fetchVars, regs>>

ScoreNext == ScoreCall \/ AdvanceClock

SpecScore == ScoreInit /\ [][ScoreNext]_vars

(***************************************************************************)
(* THE TREND LABEL (onchain.ts 394-398) on its own: 30-point histories of   *)
(* integers in 20..99, as the loop of Step 6 produces them, are classified. *)
(* arg holds the history, calls the label.                                  *)
(***************************************************************************)
TrendBases == {25, 77, 95}
MaxStep == 3

\* days 1-16 at a base value; days 17-23 at the base, the last oldUp of
\* them one point higher; days 24-30 at base + d, the first recUp of them
\* one point higher
TrendHistory(b, d, oldUp, recUp) ==
    [i \in 1..30 |->
        IF i <= 16 THEN b
        ELSE IF i <= 23 THEN (IF i > 23 - oldUp THEN b + 1 ELSE b)
        ELSE (IF i <= 23 + recUp THEN b + d + 1 ELSE b + d)]

TrendHistories ==
    { TrendHistory(b, d, oldUp, recUp) :
        b \in TrendBases, d \in (-MaxStep)..MaxStep,
        oldUp \in 0..7, recUp \in 0..7 }

TrendInit ==
    /\ CacheIdle
    /\ FetchIdle
    /\ RegIdle
    /\ now = 0
    /\ seedTab = [r \in 0..(SeedPeriod - 1) |-> 500]
    /\ \E history \in TrendHistories : arg = [history |-> history]
    /\ calls = <<>>

\* 394-398: the label of the history
TrendCall ==
    /\ calls = <<>>
    /\ calls' = <<Trend(arg.history)>>
    /\ UNCHANGED <<now, seedTab, arg, cacheVars, fetchVars, regs>>

SpecTrend == TrendInit /\ [][TrendCall]_vars

(***************************************************************************)
(* THE PROTOCOL BASE on its own: the two places that compute it (105-107   *)
(* and 310-313) applied to one entity.  arg holds the entity, calls the    *)
(* two bases.                                                              *)
(***************************************************************************)
\* the keys of PROTOCOL_SCORES (56-66), and names that are not keys
TableProtocols ==
    { "autonolas", "fetch-ai", "erc-8004", "virtuals", "morpheus", "openclaw",
      "spectral", "wayfinder", "ai-arena" }
OtherProtocols == { "independent", "olas", "" }

BaseAgents ==
    { [ id |-> <<97>>, protocol |-> p, source |-> src, walletAddress |-> w,
        chains |-> <<"base">>, skills |-> <<"DeFi">>, createdAt |-> -(a * MONTH) ] :
        p \in TableProtocols \cup OtherProtocols,
        src \in {"hardcoded", "user-submitted"},
        w \in {"0xA", ""}, a \in {0, 30} }

BaseInit ==
    /\ CacheIdle
    /\ FetchIdle
    /\ RegIdle
    /\ now = 0
    /\ seedTab = [r \in 0..(SeedPeriod - 1) |-> 500]
    /\ \E agent \in BaseAgents : arg = [agent |-> agent]
    /\ calls = <<>>

\* the first statement of generatePerformanceMetrics and Step 1 of
\* computeReputation, both called by one build
BaseCall ==
    /\ calls = <<>>
    /\ calls' = << [ ofMetrics |-> MetricsProtocolBase(arg.agent),
                     ofReputation |-> ProtocolBase(arg.agent) ] >>
    /\ UNCHANGED <<now, seedTab, arg, cacheVars, fetchVars, regs>>

SpecBase == BaseInit /\ [][BaseCall]_vars

(***************************************************************************)
(* ACTIVITY.  One entity with a wallet is scored with no transaction on    *)
(* any chain and again, at the same time and with the same balances and    *)
(* transfers, with a positive transaction count.                           *)
(***************************************************************************)
\* the transaction counts of the first two chains after the raise
RaisedCounts == { <<1, 0>>, <<40, 0>>, <<0, 3>>, <<90000, 700>> }

TxInit ==
    /\ CacheIdle
    /\ FetchIdle
    /\ RegIdle
    /\ now = 0
    /\ seedTab \in SeedTables
    /\ \E agent \in ScoreAgents : \E inp \in ScoreInputs(agent) :
          /\ agent.walletAddress # ""
          /\ arg = [ agent |-> agent,
                     txCounts |-> [c \in DOMAIN inp.txCounts |-> 0],
                     balances |-> inp.balances, txs |-> inp.txs ]
    /\ calls = <<>>

\* the chains report transactions of the wallet
RaiseTx ==
    /\ Len(calls) = 1
    /\ TotalTx(arg.txCounts) = 0
    /\ \E raised \in RaisedCounts :
          LET evm == EvmChains(arg.agent.chains)
          IN arg' = [arg EXCEPT !.txCounts =
                        [c \in Range(evm) |->
                            IF c = evm[1] THEN raised[1]
                            ELSE IF c = evm[2] THEN raised[2] ELSE 0]]
    /\ UNCHANGED <<now, seedTab, calls, cacheVars, fetchVars, regs>>

\* buildAgent 435-451: the metrics and the reputation of the entity
TxScoreCall ==
    /\ \/ calls = <<>>
       \/ Len(calls) = 1 /\ TotalTx(arg.txCounts) > 0
    /\ calls' = Append(calls,
          [ at |-> now, totalTx |-> TotalTx(arg.txCounts),
            out |-> buildAgent(arg.agent, arg.txCounts, arg.balances, arg.txs) ])
    /\ UNCHANGED <<now, seedTab, arg, cacheVars, fetchVars, regs>>

TxNext == RaiseTx \/ TxScoreCall

SpecTx == TxInit /\ [][TxNext]_vars

(***************************************************************************)
(* PROTOCOL.  One catalog entity is scored, then scored again, at the same *)
(* time and with the same on-chain inputs, under another protocol.         *)
(***************************************************************************)
\* the protocols the entity is moved to: the table's highest, a middle and
\* its lowest value, and a name outside the table
SwitchedProtocols == { "autonolas", "virtuals", "ai-arena", "independent" }

ProtoInit ==
    /\ CacheIdle
    /\ FetchIdle
    /\ RegIdle
    /\ now = 0
    /\ seedTab \in SeedTables
    /\ \E agent \in ScoreAgents : \E inp \in ScoreInputs(agent) :
          /\ agent.source = "hardcoded"
          /\ arg = [ agent |-> agent, txCounts |-> inp.txCounts,
                     balances |-> inp.balances, txs |-> inp.txs ]
    /\ calls = <<>>

\* the same entity under another protocol
SwitchProtocol ==
    /\ Len(calls) = 1
    /\ arg.agent.protocol = calls[1].protocol
    /\ \E p \in SwitchedProtocols \ {arg.agent.protocol} :
          arg' = [arg EXCEPT !.agent.protocol = p]
    /\ UNCHANGED <<now, seedTab, calls, cacheVars, fetchVars, regs>>

\* buildAgent 435-451: the metrics and the reputation of the entity
ProtoScoreCall ==
    /\ \/ calls = <<>>
       \/ Len(calls) = 1 /\ arg.agent.protocol # calls[1].protocol
    /\ calls' = Append(calls,
          [ at |-> now, protocol |-> arg.agent.protocol,
            out |-> buildAgent(arg.agent, arg.txCounts, arg.balances, arg.txs) ])
    /\ UNCHANGED <<now, seedTab, arg, cacheVars, fetchVars, regs>>

ProtoNext == SwitchProtocol \/ ProtoScoreCall

SpecProto == ProtoInit /\ [][ProtoNext]_vars

(***************************************************************************)
(* TRANSFERS.  fetchRecentTransfers (onchain.ts 202-253) on its own, for   *)
(* the responses ankrAdvancedCall (part_009 52-66) can settle with.  arg   *)
(* holds the chains and the response, calls the settled promise.           *)
(***************************************************************************)
MaxTransfers == 17      \* the longest transfers array of a response

TransferChains == { <<"solana">>, <<"ethereum">>, <<"ethereum", "base", "solana">> }

\* a transfers array of n entries, newest first; the entry at position bad
\* (if any) has a timestamp that is not a number
TransfersOfLength(n, bad) ==
    [i \in 1..n |-> [timestamp |-> -i, timestampValid |-> i # bad]]

\* what the call settles with: it throws (network error, HTTP status,
\* JSON-RPC error), or it returns a result without transfers, or a result
\* with a transfers array.  The request asks for a pageSize of 15 (219);
\* the length of the array is the server's choice.
TransferResponses ==
    { [kind |-> "throws", transfers |-> <<>>],
      [kind |-> "empty", transfers |-> <<>>] }
    \cup
    { [kind |-> "result", transfers |-> TransfersOfLength(n, bad)] :
        n \in 0..MaxTransfers, bad \in {0, 1, MaxTransfers} }

\* 206-252: the promise fetchRecentTransfers settles with.  A timestamp
\* that is not a number makes toISOString throw inside the try (241-243).
fetchRecentTransfersOf(chains, response) ==
    IF EvmChains(chains) = <<>> THEN [rejected |-> FALSE, list |-> <<>>]
    ELSE IF response.kind = "throws" THEN [rejected |-> FALSE, list |-> <<>>]
    ELSE IF response.kind = "empty" THEN [rejected |-> FALSE, list |-> <<>>]
    ELSE IF \E i \in 1..Len(response.transfers) :
                ~response.transfers[i].timestampValid
    THEN [rejected |-> FALSE, list |-> <<>>]
    ELSE [rejected |-> FALSE,
          list |-> [i \in 1..Len(response.transfers) |->
                       [timestamp |-> response.transfers[i].timestamp,
                        status |-> "success"]]]

TransfersInit ==
    /\ CacheIdle
    /\ FetchIdle
    /\ RegIdle
    /\ now = 0
    /\ seedTab = [r \in 0..(SeedPeriod - 1) |-> 500]
    /\ \E chains \in TransferChains : \E response \in TransferResponses :
          arg = [chains |-> chains, response |-> response]
    /\ calls = <<>>

\* the call of fetchRecentTransfers settles
TransfersCall ==
    /\ calls = <<>>
    /\ calls' = <<fetchRecentTransfersOf(arg.chains, arg.response)>>
    /\ UNCHANGED <<now, seedTab, arg, cacheVars, fetchVars, regs>>

SpecTransfers == TransfersInit /\ [][TransfersCall]_vars

(***************************************************************************)
(* UPTIME.  checkEndpointHealth (src/app/agents/page.tsx 80-151) called    *)
(* with an empty uptimeCache.  arg holds the url and what the HEAD and the *)
(* GET request settle with, calls the result.                              *)
(***************************************************************************)
\* a request settles with the status of the final response (redirects are
\* followed), or throws: 0 stands for a network error or the abort after
\* 8 seconds
HttpOutcomes == {0, 200, 204, 301, 304, 399, 400, 404, 405, 429, 499, 500, 503}

HealthUrls == { "", "ftp://agent.example", "https://agent.example" }

\* 84-86: the url is an http or https url
IsHttpUrl(url) == url = "https://agent.example"

\* 94-146: the HEAD request, the GET request after a 405, and the result
checkEndpointHealth(url, head, get) ==
    IF ~IsHttpUrl(url) THEN None
    ELSE IF head = 0 THEN Some([isUp |-> FALSE, statusCode |-> 0])
    ELSE IF head = 405 /\ get = 0 THEN Some([isUp |-> FALSE, statusCode |-> 0])
    ELSE LET status == IF head = 405 THEN get ELSE head
         IN Some([isUp |-> status >= 200 /\ status < 500,
                  statusCode |-> status])

HealthInit ==
    /\ CacheIdle
    /\ FetchIdle
    /\ RegIdle
    /\ now = 0
    /\ seedTab = [r \in 0..(SeedPeriod - 1) |-> 500]
    /\ \E url \in HealthUrls : \E head \in HttpOutcomes : \E get \in HttpOutcomes :
          arg = [url |-> url, head |-> head, get |-> get]
    /\ calls = <<>>

\* the call of checkEndpointHealth settles
HealthCall ==
    /\ calls = <<>>
    /\ calls' = <<checkEndpointHealth(arg.url, arg.head, arg.get)>>
    /\ UNCHANGED <<now, seedTab, arg, cacheVars, fetchVars, regs>>

SpecHealth == HealthInit /\ [][HealthCall]_vars

(***************************************************************************)
(* ECOSYSTEM STATS.  getEcosystemStats (onchain.ts 735-810) applied to the *)
(* list getAllAgents returned.  Of the result, the display string          *)
(* totalValueProcessed is left out, as in the Agent record.                *)
(***************************************************************************)
MaxAgents == 3      \* longest list of agents given to getEcosystemStats
DAY == 288          \* 86400000 ms, in periods of five minutes

\* the keys of byChain, in the order of the object literal (747-756)
ChainIds ==
    <<"ethereum", "base", "solana", "arbitrum", "polygon", "optimism",
      "avalanche", "bnb-chain">>

\* Math.sin(i * 0.3) for i = 0..29, to four decimals (at index i + 1)
SinE4 ==
    <<0, 2955, 5646, 7833, 9320, 9975, 9738, 8632, 6755, 4274,
      1411, -1577, -4425, -6878, -8716, -9775, -9962, -9258, -7728, -5507,
      -2794, 168, 3115, 5784, 7937, 9380, 9985, 9699, 8546, 6630>>

\* agents.filter((a) => lo < a.reputation.overall && a.reputation.overall <= hi).length
CountOverall(agents, lo, hi) ==
    Cardinality({k \in 1..Len(agents) :
                    lo < agents[k].reputation.overall /\ agents[k].reputation.overall <= hi})

\* the 21-40 bucket closed at neither end
reputationDistributionOpenBucket(agents) ==
    << [range |-> "0-20",   count |-> Cardinality({k \in 1..Len(agents) :
                                         agents[k].reputation.overall <= 20})],
       [range |-> "21-40",  count |-> CountOverall(agents, 20, 39)],
       [range |-> "41-60",  count |-> CountOverall(agents, 40, 60)],
       [range |-> "61-80",  count |-> CountOverall(agents, 60, 80)],
       [range |-> "81-100", count |-> Cardinality({k \in 1..Len(agents) :
                                         agents[k].reputation.overall > 80})] >>

\* repDist (765-771)
reputationDistribution(agents) ==
    << [range |-> "0-20",   count |-> Cardinality({k \in 1..Len(agents) :
                                         agents[k].reputation.overall <= 20})],
       [range |-> "21-40",  count |-> CountOverall(agents, 20, 40)],
       [range |-> "41-60",  count |-> CountOverall(agents, 40, 60)],
       [range |-> "61-80",  count |-> CountOverall(agents, 60, 80)],
       [range |-> "81-100", count |-> Cardinality({k \in 1..Len(agents) :
                                         agents[k].reputation.overall > 80})] >>

\* dailyTx (773-781): 30 days, oldest first; the date as a day number
dailyTransactions(totalTx, t) ==
    LET avgDaily == Max(1, (totalTx + 15) \div 30)
    IN [ d \in 1..30 |->
           LET i == 30 - d
           IN [ date  |-> (t \div DAY) - i,
                count |-> (avgDaily * 100000 + 3 * SinE4[i + 1] * avgDaily + 50000)
                              \div 100000 ] ]

\* how many times x occurs in the lists a[field] of the agents: the loops
\* over a.chains and a.skills
Occurrences(agents, field, x) ==
    SumSeq([k \in 1..Len(agents) |->
               Cardinality({n \in 1..Len(agents[k][field]) : agents[k][field][n] = x})])

\* the first key with the largest count: a stable sort by count, descending
TopChain(byChain) ==
    LET best == CHOOSE n \in 1..Len(ChainIds) :
                  /\ \A k \in 1..Len(ChainIds) : byChain[ChainIds[k]] <= byChain[ChainIds[n]]
                  /\ \A k \in 1..(n - 1) : byChain[ChainIds[k]] < byChain[ChainIds[n]]
    IN ChainIds[best]

getEcosystemStats(agents, t) ==
    LET totalTx == SumSeq([k \in 1..Len(agents) |-> agents[k].stats.totalTransactions])
        sumRep  == SumSeq([k \in 1..Len(agents) |-> agents[k].reputation.overall])
        avgRep  == IF Len(agents) > 0
                   THEN (2 * sumRep + Len(agents)) \div (2 * Len(agents)) ELSE 0
        byChain == [c \in Range(ChainIds) |-> Occurrences(agents, "chains", c)]
        skills  == UNION {Range(agents[k].skills) : k \in 1..Len(agents)}
        bySkill == [sk \in skills |-> Occurrences(agents, "skills", sk)]
    IN [ totalAgents |-> Len(agents),
         activeAgents |-> Cardinality({k \in 1..Len(agents) : agents[k].status = "active"}),
         totalTransactions |-> totalTx,
         averageReputation |-> avgRep,
         topChain |-> TopChain(byChain),
         agentsByChain |-> byChain,
         agentsBySkill |-> bySkill,
         reputationDistribution |-> reputationDistribution(agents),
         dailyTransactions |-> dailyTransactions(totalTx, t) ]

\* agents as buildAgent returns them: overall is an integer from clamp, the
\* status one of three; the values sit on both sides of the bucket limits
StatsOveralls == {21, 40, 41, 60, 80, 81}

StatsAgents ==
    { [ status |-> st,
        chains |-> IF ov <= 41 THEN <<"base">> ELSE <<"ethereum", "base">>,
        skills |-> IF st = "active" THEN <<"Trading", "DeFi">> ELSE <<"Content">>,
        reputation |-> [overall |-> ov],
        stats |-> [totalTransactions |-> ov * 7] ]
      : ov \in StatsOveralls, st \in {"active", "inactive"} }
    \cup
    { [ status |-> "under-review", chains |-> <<"solana">>, skills |-> <<>>,
        reputation |-> [overall |-> 99], stats |-> [totalTransactions |-> 0] ] }

RECURSIVE ListsUpTo(_, _)
ListsUpTo(S, n) ==
    IF n = 0 THEN {<<>>}
    ELSE LET shorter == ListsUpTo(S, n - 1)
         IN shorter \cup {Append(l, x) : l \in shorter, x \in S}

StatsInit ==
    /\ CacheIdle
    /\ FetchIdle
    /\ RegIdle
    /\ now = MONTH
    /\ seedTab = [r \in 0..(SeedPeriod - 1) |-> 500]
    /\ \E agents \in ListsUpTo(StatsAgents, MaxAgents) : arg = [agents |-> agents]
    /\ calls = <<>>

\* the call of getEcosystemStats settles, given what getAllAgents resolved to
StatsCall ==
    /\ calls = <<>>
    /\ calls' = <<getEcosystemStats(arg.agents, now)>>
    /\ UNCHANGED <<now, seedTab, arg, cacheVars, fetchVars, regs>>

SpecStats == StatsInit /\ [][StatsCall]_vars

(***************************************************************************)
(* CLAIMS                                                                  *)
(***************************************************************************)

\* C1: every scoring call, for every entity and every on-chain input (none
\* included), returns overall in 20..99 and each of reliability, accuracy,
\* speed and trustworthiness in 25..99 (integers).
C1_ScoresInRange ==
    \A i \in 1..Len(calls) :
        LET r == calls[i].out.reputation
        IN /\ r.overall \in 20..99
           /\ r.reliability \in 25..99
           /\ r.accuracy \in 25..99
           /\ r.speed \in 25..99
           /\ r.trustworthiness \in 25..99

\* a call without any on-chain input whose accuracy sits on the floor
C1_Witness ==
    /\ Len(calls) > 0
    /\ arg.txCounts = <<>> /\ arg.balances = <<>>
    /\ calls[1].out.reputation.accuracy = 25
    /\ calls[1].out.reputation.overall < 30

\* the age of the scored entity at the time of call i is at least 25 months
AgeSaturatedAt(i) == calls[i].at - arg.agent.createdAt >= 25 * MONTH

CompleteFor(list, known) ==
    /\ Len(list) = Cardinality({i \in 1..Len(known) : ~known[i].chainsNull})
    /\ \A i \in 1..Len(known) :
          ~known[i].chainsNull <=> \E j \in 1..Len(list) : list[j].id = known[i].id

\* the list is ordered by overall score, highest first
SortedByOverall(list) ==
    \A i, j \in 1..Len(list) :
        i < j => list[i].reputation.overall >= list[j].reputation.overall

\* C2: the first call of getAllAgents that starts after invalidateAgentsCache
\* has returned rebuilds the list; it is never answered from the cache.
C2_NextCallRebuilds ==
    \A p \in Callers : procs[p].afterInval => procs[p].how = "rebuild"

\* C3: the shared cache is empty or holds the complete, sorted result of one
\* finished rebuild, and every list handed to a caller is complete and
\* sorted: no list holds only some batches of a rebuild.
C3_CacheCompleteOrEmpty ==
    /\ agentsCache # None =>
          /\ CompleteFor(agentsCache[1], cacheKnown)
          /\ SortedByOverall(agentsCache[1])
    /\ \A p \in Callers :
          procs[p].pc = "done" /\ ~procs[p].rejected =>
              /\ CompleteFor(procs[p].ret, procs[p].known)
              /\ SortedByOverall(procs[p].ret)

\* a rebuild of two batches has finished and filled the cache while the
\* other caller is between the batches of its own rebuild
C3_Witness ==
    /\ agentsCache # None
    /\ Len(cacheKnown) > batchSize
    /\ \E p \in Callers :
          procs[p].pc = "batch" /\ procs[p].i = batchSize /\ procs[p].agents # <<>>
    /\ \E p \in Callers : procs[p].pc = "done" /\ procs[p].how = "cache"

\* C4: a call of getAllAgents that starts while the cache is set and younger
\* than CACHE_TTL returns the cached list at once, changing nothing and
\* calling neither the store nor the chains; a call that starts when the
\* cache is CACHE_TTL old or older goes on to read the store and rebuild.
C4_TtlDecides ==
    [][\A p \in Callers :
          procs[p].pc = "idle" /\ procs'[p].pc # "idle" =>
             IF agentsCache # None /\ now - cacheTimestamp < CACHE_TTL
             THEN /\ procs'[p].pc = "done"
                  /\ procs'[p].how = "cache"
                  /\ procs'[p].ret = agentsCache[1]
                  /\ UNCHANGED <<agentsCache, cacheTimestamp>>
             ELSE /\ procs'[p].pc = "store"
                  /\ procs'[p].how = "rebuild"]_vars

\* one call was answered from a cache younger than CACHE_TTL; the clock has
\* reached the TTL since and the other call has gone on to the store
C4_Witness ==
    /\ agentsCache # None
    /\ now - cacheTimestamp = CACHE_TTL
    /\ \E p, q \in Callers :
          /\ procs[p].pc = "done" /\ procs[p].how = "cache"
          /\ procs[q].pc = "store"

\* C9: when the build of an entity throws during a rebuild, getAllAgents
\* does not reject, the entity is missing from the result and every entity
\* whose build succeeds, of the same batch and of the later ones, is in it.
C9_ThrowDropsOnlyThatEntity ==
    \A p \in Callers :
        LET me == procs[p]
        IN me.pc = "done" /\ me.how = "rebuild"
           /\ (\E i \in 1..Len(me.known) : me.known[i].chainsNull) =>
              /\ ~me.rejected
              /\ \A i \in 1..Len(me.known) :
                    IF me.known[i].chainsNull
                    THEN \A j \in 1..Len(me.ret) : me.ret[j].id # me.known[i].id
                    ELSE \E j \in 1..Len(me.ret) : me.ret[j].id = me.known[i].id

\* a rebuild has finished whose first batch held an entity whose build
\* throws, with entities after it in the batch and in the next batch
C9_Witness ==
    \E p \in Callers :
        LET me == procs[p]
        IN /\ me.pc = "done" /\ me.how = "rebuild" /\ ~me.rejected
           /\ Len(me.known) > batchSize
           /\ \E i \in 1..(batchSize - 1) : me.known[i].chainsNull
           /\ Len(me.ret) = Len(me.known) - 1

\* C10: getAgentById called with an id that neither the catalog nor the
\* store holds resolves to undefined and does not reject.
C10_UnknownIdUndefined ==
    lookup.pc = "done" /\ lookup.id = UnknownId =>
        ~lookup.rejected /\ lookup.ret = None

\* the call found no fresh cache and the read of the store failed
C10_Witness ==
    /\ lookup.pc = "done" /\ lookup.id = UnknownId
    /\ ~lookup.hit /\ lookup.storeFailed

\* the call of a method on a chain for the k-th entity of the rebuild
RebuildCall(k, method, chain) == Call(rebuild.known[k], method, chain)

\* C5: whatever the store call and the network calls of the builds did,
\* getAllAgents resolves and its list holds a scored record for every entry
\* of KNOWN_AGENTS.
C5_CatalogAlwaysScored ==
    rebuild.pc = "done" =>
        /\ ~rebuild.rejected
        /\ \A i \in 1..Len(KNOWN_AGENTS) :
              \E j \in 1..Len(rebuild.ret) :
                  /\ rebuild.ret[j].id = KNOWN_AGENTS[i].id
                  /\ rebuild.ret[j].reputation.overall \in 20..99

\* the rebuild is done after the store call, a balance call, a transaction
\* count call and a transfers call have failed
C5_Witness ==
    /\ rebuild.pc = "done"
    /\ rebuild.storeFailed
    /\ \A m \in {"getBalance", "getTransactionCount", "getTokenTransfers"} :
          \E c \in DOMAIN rpc : c.method = m /\ rpc[c] = "failed"

\* what the chains hold (field: count or balance) for the k-th entity of
\* the rebuild, summed over the chains whose call of the method returned a
\* result
RECURSIVE SumAnswered(_, _, _, _)
SumAnswered(k, method, field, evm) ==
    IF evm = <<>> THEN 0
    ELSE (IF rpc[RebuildCall(k, method, Head(evm))] = "ok"
          THEN ChainData(rebuild.known[k].walletAddress, Head(evm))[field]
          ELSE 0)
         + SumAnswered(k, method, field, Tail(evm))

\* C6: for every entity with a wallet, the transaction count and the balance
\* handed to the scoring are the sums over the chains whose call returned
\* a result; a chain whose call failed adds zero.
C6_FailedChainAddsZero ==
    rebuild.pc = "done" =>
        \A k \in 1..Len(rebuild.inputs) :
            LET known == rebuild.known[k]
                evm == EvmChains(known.chains)
            IN known.walletAddress # "" =>
                /\ rebuild.inputs[k].id = known.id
                /\ rebuild.inputs[k].totalTx
                     = SumAnswered(k, "getTransactionCount", "count", evm)
                /\ rebuild.inputs[k].totalBalance
                     = SumAnswered(k, "getBalance", "balance", evm)

\* an entity on two chains: one of its transaction count calls failed and
\* the other returned a count, and the same of its balance calls
C6_Witness ==
    /\ rebuild.pc = "done"
    /\ \E k \in 1..Len(rebuild.known) :
          /\ Len(EvmChains(rebuild.known[k].chains)) = 2
          /\ rebuild.known[k].walletAddress # ""
          /\ rpc[RebuildCall(k, "getTransactionCount", "ethereum")] = "failed"
          /\ rpc[RebuildCall(k, "getTransactionCount", "polygon")] = "ok"
          /\ rpc[RebuildCall(k, "getBalance", "ethereum")] = "ok"
          /\ rpc[RebuildCall(k, "getBalance", "polygon")] = "failed"
          /\ rebuild.inputs[k].totalTx > 0

\* C7: a rebuild that has issued its network calls completes.
C7_RebuildCompletes == (rebuild.pc = "batch") ~> (rebuild.pc = "done")

\* C11: once registerAgent has succeeded for a new agent, a later call of
\* getAgentById(slug) that reads the store without a failure returns the
\* agent's record, whatever the age of agentsCache
C11_RegisteredIsFound ==
    (lookup.pc = "done" /\ lookup.registered /\ ~lookup.storeFailed)
        => lookup.ret # None

\* the list holds the builds of the entries of known, in the order of known
InRegistryOrder(list, known) ==
    LET built == SelectSeq(known, LAMBDA k : ~k.chainsNull)
    IN /\ Len(list) = Len(built)
       /\ \A i \in 1..Len(list) : list[i].id = built[i].id

\* C12: every list getAllAgents returns is ordered by reputation.overall,
\* highest first, and the sort runs only after the last batch has settled:
\* between two batches the collected builds are still in registry order.
C12_SortedAfterAllBatches ==
    \A p \in Callers :
        /\ (procs[p].pc = "done" /\ ~procs[p].rejected)
              => SortedByOverall(procs[p].ret)
        /\ procs[p].pc = "batch"
              => InRegistryOrder(procs[p].agents,
                                 SubSeq(procs[p].known, 1, procs[p].i))

\* one rebuild of two batches has returned a list that the sort reordered,
\* while the other sits between its batches with builds out of score order
C12_Witness ==
    /\ \E p \in Callers :
          /\ procs[p].pc = "done" /\ procs[p].how = "rebuild"
          /\ Len(procs[p].known) > batchSize
          /\ ~InRegistryOrder(procs[p].ret, procs[p].known)
    /\ \E p \in Callers :
          /\ procs[p].pc = "batch" /\ procs[p].i = batchSize
          /\ ~SortedByOverall(procs[p].agents)

\* no two entries of the list have the same id
DistinctIds(list) ==
    \A i, j \in 1..Len(list) : list[i].id = list[j].id => i = j

\* C13: the registry list that getAllAgents merges from the catalog and the
\* submission store holds no two entities with the same id.
C13_MergeHasDistinctIds ==
    \A p \in Callers : procs[p].pc = "batch" => DistinctIds(procs[p].known)

\* a lookup that started after a successful registration and did not hit
\* the cache found the row in the store
FoundPastTheCache ==
    (lookup.pc = "done" /\ lookup.registered /\ ~lookup.storeFailed
        /\ ~lookup.hit) => lookup.ret # None

\* C14: for an entity with no wallet address the build issues no balance,
\* transaction count or transfers call, the three terms of its on-chain
\* bonus are 0 and its verifiableExecScore is 0.
C14_WalletlessTouchesNoChain ==
    \A k \in 1..Len(rebuild.known) :
        rebuild.known[k].walletAddress = "" =>
            /\ \A c \in DOMAIN rpc : c.agent # rebuild.known[k].id
            /\ rebuild.pc = "done" =>
                  LET f == Fetched(rebuild.known[k], Answered)
                      oc == OnChain(f.txCounts, f.balances)
                  IN /\ rebuild.inputs[k].totalTx = 0
                     /\ rebuild.inputs[k].totalBalance = 0
                     /\ oc.txActivity + oc.balanceBonus + oc.multiChainAct = 0
                     /\ \A j \in 1..Len(rebuild.ret) :
                           rebuild.ret[j].id = rebuild.known[k].id =>
                               rebuild.ret[j].metrics.verifiableExecScore = 0

\* the rebuild is done: it scored a walletless row of the store next to a
\* catalog entity whose calls returned and earned an on-chain bonus
C14_Witness ==
    /\ rebuild.pc = "done"
    /\ \E k \in 1..Len(rebuild.known) :
          /\ rebuild.known[k].walletAddress = ""
          /\ \E j \in 1..Len(rebuild.ret) : rebuild.ret[j].id = rebuild.known[k].id
    /\ \E k \in 1..Len(rebuild.known) :
          /\ rebuild.known[k].walletAddress # ""
          /\ rebuild.inputs[k].totalTx > 0
          /\ \E j \in 1..Len(rebuild.ret) :
                /\ rebuild.ret[j].id = rebuild.known[k].id
                /\ rebuild.ret[j].metrics.verifiableExecScore > 0

\* seven times the mean of the last 7 values of the history in arg minus
\* the mean of the 7 values before them
WeekOverWeek ==
    LET hist == arg.history
        sum(from, to) == SumSeq([i \in 1..(to - from + 1) |-> hist[from + i - 1]])
    IN sum(24, 30) - sum(17, 23)

\* C15: for every 30-point history the label is up exactly when the mean of
\* the last 7 values exceeds the mean of the 7 before by more than 1.5,
\* down exactly when it is more than 1.5 below, and stable otherwise.
C15_TrendByThreshold ==
    calls # <<>> =>
        /\ calls[1] = "up" <=> 10 * WeekOverWeek > 105
        /\ calls[1] = "down" <=> 10 * WeekOverWeek < -105
        /\ calls[1] = "stable" <=>
              (10 * WeekOverWeek <= 105 /\ 10 * WeekOverWeek >= -105)

\* a history whose means differ by 11/7, just above the threshold, has been
\* labelled, with values that differ inside the older week
C15_Witness ==
    /\ calls # <<>>
    /\ WeekOverWeek = 11
    /\ arg.history[23] # arg.history[17]

\* the history in arg has a last-7 mean of 80 and a preceding-7 mean of 77
Means80And77 ==
    LET hist == arg.history
    IN /\ SumSeq([i \in 1..7 |-> hist[23 + i]]) = 7 * 80
       /\ SumSeq([i \in 1..7 |-> hist[16 + i]]) = 7 * 77

\* C16 as stated: a history with last-7 mean 80 and preceding-7 mean 77 is
\* labelled stable.
C16_Mean80Over77Stable ==
    (calls # <<>> /\ Means80And77) => calls[1] = "stable"

\* C16 as the code has it: a history with last-7 mean 80 and preceding-7
\* mean 77 is labelled up, the difference of 3 being above 1.5.
C16_Mean80Over77Up ==
    (calls # <<>> /\ Means80And77) => calls[1] = "up"

\* such a history has been labelled
C16_Witness == calls # <<>> /\ Means80And77

\* the distance of a history point from the overall score
DistanceFrom(overall, point) ==
    IF point >= overall THEN point - overall ELSE overall - point

\* C17: the 30-point history converges toward overall over its last third:
\* the last point is no farther from overall than the point ten days
\* earlier (the 20th of the 30).
C17_HistoryConverges ==
    \A k \in 1..Len(calls) :
        LET rep == calls[k].out.reputation
            hist == rep.historyLast30Days
        IN DistanceFrom(rep.overall, hist[30]) <= DistanceFrom(rep.overall, hist[20])

\* C18: a user-submitted entity with no wallet address is given the status
\* under-review by buildAgent, whatever protocol it claims.
C18_WalletlessUnderReview ==
    \A k \in 1..Len(calls) :
        (arg.agent.source = "user-submitted" /\ arg.agent.walletAddress = "")
            => calls[k].out.status = "under-review"

\* the value of the documented table, 0 for a name that is not in it
TableValue(protocol) ==
    CASE protocol = "autonolas" -> 31
      [] protocol \in {"fetch-ai", "erc-8004"} -> 29
      [] protocol = "virtuals" -> 28
      [] protocol = "morpheus" -> 26
      [] protocol \in {"openclaw", "spectral"} -> 25
      [] protocol = "wayfinder" -> 24
      [] protocol = "ai-arena" -> 23
      [] OTHER -> 0

\* C19: the protocol base is 19 for a user-submitted entity whatever
\* protocol it claims, 21 for any other entity whose protocol is not in
\* the table and the table's value (23..31) otherwise, and it is the same
\* in generatePerformanceMetrics and in computeReputation.
C19_ProtocolBase ==
    calls # <<>> =>
        LET agent == arg.agent
            expected == IF agent.source = "user-submitted" THEN 19
                        ELSE IF TableValue(agent.protocol) = 0 THEN 21
                        ELSE TableValue(agent.protocol)
        IN /\ calls[1].ofReputation = expected
           /\ calls[1].ofMetrics = calls[1].ofReputation
           /\ TableValue(agent.protocol) # 0
                 => TableValue(agent.protocol) \in 23..31

\* the bases of a user-submitted entity that claims the protocol of the
\* highest table value have been computed
C19_Witness ==
    /\ calls # <<>>
    /\ arg.agent.source = "user-submitted"
    /\ arg.agent.protocol = "autonolas"
    /\ calls[1].ofMetrics = 19

\* C20: with the entity, the balances, the success rate and the clock held
\* fixed, raising the total transaction count from 0 to a positive value
\* lowers neither reliability nor overall.
C20_ActivityNeverLowers ==
    \A i, j \in 1..Len(calls) :
        (calls[i].totalTx = 0 /\ calls[j].totalTx > 0) =>
            /\ calls[j].out.stats.successRate = calls[i].out.stats.successRate
            /\ calls[j].out.reputation.reliability
                  >= calls[i].out.reputation.reliability
            /\ calls[j].out.reputation.overall >= calls[i].out.reputation.overall

\* an entity that held a balance but had no transaction was scored, then
\* scored with one transaction: reliability rose and overall is below the cap
C20_Witness ==
    /\ Len(calls) = 2
    /\ calls[1].totalTx = 0
    /\ calls[2].totalTx = 1
    /\ TotalBalance(arg.balances) > 0
    /\ calls[2].out.reputation.reliability > calls[1].out.reputation.reliability
    /\ calls[2].out.reputation.overall < 99

\* the documented base of a protocol for a catalog entity
DocumentedBase(protocol) ==
    IF TableValue(protocol) = 0 THEN 21 ELSE TableValue(protocol)

\* C21: of two catalog entities that differ only in their protocol, scored
\* with the same on-chain inputs at the same time, the one whose protocol
\* has the higher base has an overall score that is at least the other's.
C21_HigherBaseNotLower ==
    \A i, j \in 1..Len(calls) :
        DocumentedBase(calls[i].protocol) >= DocumentedBase(calls[j].protocol)
            => calls[i].out.reputation.overall >= calls[j].out.reputation.overall

\* the entity was scored under the lowest protocol of the table and under
\* the highest, and its overall score rose without reaching the cap
C21_Witness ==
    /\ Len(calls) = 2
    /\ calls[1].protocol = "ai-arena"
    /\ calls[2].protocol = "autonolas"
    /\ calls[2].out.reputation.overall > calls[1].out.reputation.overall
    /\ calls[2].out.reputation.overall < 99

\* the call failed, or the processing of its response threw
TransfersFailed ==
    \/ arg.response.kind = "throws"
    \/ \E i \in 1..Len(arg.response.transfers) :
          ~arg.response.transfers[i].timestampValid

\* fetchRecentTransfers resolves, and with the empty list when the call or
\* the processing failed
TransfersNeverReject ==
    calls # <<>> =>
        /\ ~calls[1].rejected
        /\ TransfersFailed => calls[1].list = <<>>

\* C22: fetchRecentTransfers returns a list of at most 15 transfers for
\* every response of the transfers API, and resolves with the empty list
\* when the call or the processing of its response fails.
C22_AtMostFifteenTransfers ==
    calls # <<>> =>
        /\ ~calls[1].rejected
        /\ Len(calls[1].list) <= 15
        /\ TransfersFailed => calls[1].list = <<>>

\* the builds of the rebuild that are running
RunningBuilds == {k \in 1..Len(rebuild.builds) : rebuild.builds[k] = "running"}

\* C23: during one rebuild at most 5 builds are in progress at any moment,
\* and no build of a later batch is started before every build of the
\* batches before it has settled.
C23_FiveBuildsAtATime ==
    /\ Cardinality(RunningBuilds) <= 5
    /\ \A k \in RunningBuilds : \A j \in 1..Len(rebuild.builds) :
          (j - 1) \div 5 < (k - 1) \div 5 => rebuild.builds[j] # "running"

\* the sixth entity of the registry is being built after the five of the
\* first batch have settled, one of them with an exception
C23_Witness ==
    /\ 6 \in RunningBuilds
    /\ \E j \in 1..5 : rebuild.builds[j] = "rejected"
    /\ Len(rebuild.agents) = 4

\* the status of the final response of the check in arg, 0 if a request
\* timed out or failed
FinalStatus ==
    IF arg.head = 0 THEN 0
    ELSE IF arg.head = 405 THEN arg.get
    ELSE arg.head

\* C24: checkEndpointHealth reports isUp = true exactly when the final
\* response has a 2xx or 3xx status; any other status, a timeout or a
\* network error gives isUp = false.
C24_UpMeans2xxOr3xx ==
    (calls # <<>> /\ calls[1] # None) =>
        (calls[1][1].isUp <=> FinalStatus \in 200..399)

\* C25: the on-chain bonus of computeReputation is the sum of txActivity in
\* 0..15, balanceBonus in 0..10 and multiChainAct in 0..5, so it lies in
\* 0..30, and it is 0 when the total transaction count and the total
\* balance are both 0.
C25_OnChainBonusBounds ==
    calls # <<>> =>
        LET oc == OnChain(arg.txCounts, arg.balances)
            bonus == oc.txActivity + oc.balanceBonus + oc.multiChainAct
        IN /\ oc.txActivity \in 0..15
           /\ oc.balanceBonus \in 0..10
           /\ oc.multiChainAct \in 0..5
           /\ bonus \in 0..30
           /\ (TotalTx(arg.txCounts) = 0 /\ TotalBalance(arg.balances) = 0)
                 => bonus = 0

\* an entity with 91400 transactions on three chains and 180 ETH has been
\* scored: the three terms are at their caps
C25_Witness ==
    /\ calls # <<>>
    /\ TotalTx(arg.txCounts) = 91400
    /\ OnChain(arg.txCounts, arg.balances).txActivity = 15
    /\ OnChain(arg.txCounts, arg.balances).balanceBonus = 10
    /\ OnChain(arg.txCounts, arg.balances).multiChainAct = 5

\* C26: within a build every balance query, every transaction count query
\* and the transfers query is issued at most once: a call that has settled,
\* with a result or with a failure, is never pending again.
C26_NoRetry ==
    [][\A c \in DOMAIN rpc :
          (rpc[c] # "pending" /\ c \in DOMAIN rpc') => rpc'[c] = rpc[c]]_vars

\* the rebuild is done and a balance query, a transaction count query and
\* the transfers query of one entity are still marked as failed
C26_Witness ==
    /\ rebuild.pc = "done"
    /\ \E k \in 1..Len(rebuild.known) :
          /\ rebuild.known[k].walletAddress # ""
          /\ rpc[RebuildCall(k, "getBalance", "ethereum")] = "failed"
          /\ rpc[RebuildCall(k, "getTransactionCount", "ethereum")] = "failed"
          /\ rpc[RebuildCall(k, "getTokenTransfers", "all")] = "failed"

\* C27: historyLast30Days has exactly 30 integer entries, each from 20 to
\* 99; two consecutive entries differ by at most 2, and the first entry
\* differs from overall by at most 5.
C27_HistoryShape ==
    \A k \in 1..Len(calls) :
        LET rep == calls[k].out.reputation
            hist == rep.historyLast30Days
        IN /\ Len(hist) = 30
           /\ \A i \in 1..30 : hist[i] \in 20..99
           /\ \A i \in 1..29 : DistanceFrom(hist[i], hist[i + 1]) <= 2
           /\ DistanceFrom(rep.overall, hist[1]) <= 5

\* a history that starts 5 below overall and has a step of 2
C27_Witness ==
    \E k \in 1..Len(calls) :
        LET rep == calls[k].out.reputation
            hist == rep.historyLast30Days
        IN /\ DistanceFrom(rep.overall, hist[1]) = 5
           /\ \E i \in 1..29 : DistanceFrom(hist[i], hist[i + 1]) = 2

\* C28: in every getEcosystemStats result the five counts of
\* reputationDistribution sum to totalAgents, activeAgents is at most
\* totalAgents, and dailyTransactions has exactly 30 entries.
C28_StatsConsistent ==
    \A k \in 1..Len(calls) :
        LET stats == calls[k]
        IN /\ Len(stats.reputationDistribution) = 5
           /\ SumSeq([n \in 1..5 |-> stats.reputationDistribution[n].count])
                 = stats.totalAgents
           /\ stats.activeAgents <= stats.totalAgents
           /\ Len(stats.dailyTransactions) = 30

\* the stats of three agents, one of them with an overall of exactly 40 and
\* one of exactly 80, and not all of them active
C28_Witness ==
    /\ calls # <<>>
    /\ calls[1].totalAgents = 3
    /\ calls[1].activeAgents < 3
    /\ \E k \in 1..3 : arg.agents[k].reputation.overall = 40
    /\ \E k \in 1..3 : arg.agents[k].reputation.overall = 80

\* C29: no step of getAgentById changes the agents cache or its timestamp.
\* Called with a fresh cache it returns what the cache holds for the id;
\* called with an empty or expired cache it goes on to the catalog and the
\* store, builds the entity of the requested id and no other, and returns
\* that record.
C29_LookupLeavesCache ==
    [][lookup' # lookup =>
          /\ agentsCache' = agentsCache
          /\ cacheTimestamp' = cacheTimestamp
          /\ (lookup.pc = "idle" /\ IsFresh(now)) =>
                /\ lookup'.pc = "done"
                /\ lookup'.ret = Find(agentsCache[1], lookup'.id)
          /\ (lookup.pc = "idle" /\ ~IsFresh(now)) => lookup'.pc \in {"store", "build"}
          /\ lookup.pc = "build" =>
                /\ lookup.known[1].id = lookup.id
                /\ lookup'.ret # None => lookup'.ret[1].id = lookup.id]_vars

\* a lookup has built its entity past an expired cache, which is still there
C29_Witness ==
    /\ lookup.pc = "done" /\ ~lookup.hit /\ lookup.ret # None
    /\ agentsCache # None /\ ~IsFresh(now)
    /\ Len(agentsCache[1]) > 1

\* the callers of getAllAgents whose rebuild has started and has not yet
\* written the cache
Rebuilding ==
    {p \in Callers : procs[p].how = "rebuild" /\ procs[p].pc \in {"store", "batch"}}

\* C30: at most one rebuild of the agents cache is in progress at any time:
\* calls of getAllAgents that overlap while the cache is empty or expired
\* share one rebuild.
C30_OneRebuildAtATime == Cardinality(Rebuilding) <= 1

====
